---- MODULE Spec2Model ----
(***************************************************************************)
(* RBAC authorization engine of mall-api-base: the credential store        *)
(* (users, roles, permissions, user_roles, role_permissions), the          *)
(* permission resolver, the authenticator and the authorization gates.     *)
(***************************************************************************)
EXTENDS Integers, Sequences, FiniteSets, Bags, TLC

VARIABLES
  users,             \* table users:            id -> [status]
  roles,             \* table roles:            id -> [code, status]
  permissions,       \* table permissions:      id -> [code, parent_id, sort_order, status]
  user_roles,        \* table user_roles:       set of <<user_id, role_id>>
  role_permissions,  \* table role_permissions: set of <<role_id, permission_id>>
  ctx,               \* Koa context of the request handled last
  tokens,            \* JWTs signed by generateToken so far
  now,               \* wall clock
  call,              \* the assignment call in flight (service + repository locals)
  redis              \* the Redis store: key -> value

dbVars == <<users, roles, permissions, user_roles, role_permissions>>
vars == <<users, roles, permissions, user_roles, role_permissions, ctx, tokens, now, call, redis>>

\* ---------------------------------------------------------------- bounds
MaxUsers == 2
MaxRoles == 2
MaxPerms == 2
MaxTokens == 2
MaxTime == 24

UserIds == 1..MaxUsers
RoleIds == 1..MaxRoles
PermIds == 1..MaxPerms

\* ---------------------------------------------------------------- seed data
\* INSERT INTO roles: super_admin, admin, operator
RoleCodeOf(id) ==
  CASE id = 1 -> "super_admin"
    [] id = 2 -> "admin"
    [] OTHER  -> "operator"

\* INSERT INTO permissions: the first rows of the seed
PermCodeOf(id) ==
  CASE id = 1 -> "user:manage"
    [] id = 2 -> "user:list"
    [] id = 3 -> "user:create"
    [] OTHER  -> "user:update"

RoleCodes == {RoleCodeOf(r) : r \in RoleIds}
PermCodes == {PermCodeOf(p) : p \in PermIds}

\* ---------------------------------------------------------------- helpers
Range(s) == {s[i] : i \in DOMAIN s}

\* rows in ascending id order (the order InnoDB returns them by primary key)
RECURSIVE SortIds(_)
SortIds(S) ==
  IF S = {} THEN <<>>
  ELSE LET m == CHOOSE x \in S : \A y \in S : x <= y
       IN  <<m>> \o SortIds(S \ {m})

Distinct_keepAll(s) == s

\* SELECT DISTINCT / Map keyed by id: the first occurrence of each row is kept
RECURSIVE Distinct(_)
Distinct(s) ==
  IF s = <<>> THEN <<>>
  ELSE LET front == Distinct(SubSeq(s, 1, Len(s) - 1))
           last  == s[Len(s)]
       IN  IF last \in Range(front) THEN front ELSE Append(front, last)

RECURSIVE Flatten(_)
Flatten(ss) == IF ss = <<>> THEN <<>> ELSE Head(ss) \o Flatten(Tail(ss))

\* ---------------------------------------------------------------- repositories: reads
\* SELECT * FROM t WHERE id = ?: rows[0] || null; the row is findById(t, id)[1]
Null == <<>>

findById(table, id) == IF id \in DOMAIN table THEN <<table[id]>> ELSE Null

\* ORDER BY p.sort_order, p.id over the joined rows <<role_id, permission_id>>
JoinRowLe(x, y) ==
  \/ permissions[x[2]].sort_order < permissions[y[2]].sort_order
  \/ /\ permissions[x[2]].sort_order = permissions[y[2]].sort_order
     /\ \/ x[2] < y[2]
        \/ x[2] = y[2] /\ x[1] <= y[1]

\* permissions p JOIN role_permissions rp JOIN user_roles ur
\* WHERE ur.user_id = ? AND p.status = 1: one row per (ur, rp) pair
RECURSIVE OrderJoinRows(_)
OrderJoinRows(S) ==
  IF S = {} THEN <<>>
  ELSE LET m == CHOOSE x \in S : \A y \in S : JoinRowLe(x, y)
       IN  <<m>> \o OrderJoinRows(S \ {m})

PermissionJoinRows(userId) ==
  LET pairs == {rp \in role_permissions :
                  /\ <<userId, rp[1]>> \in user_roles
                  /\ rp[2] \in DOMAIN permissions
                  /\ permissions[rp[2]].status = 1}
      sorted == OrderJoinRows(pairs)
  IN  [i \in 1..Len(sorted) |-> sorted[i][2]]

\* UserRepository.getUserPermissions, SQL repository: permission ids in row order
getUserPermissions(userId) == Distinct(PermissionJoinRows(userId))

\* UserRepository.getUserRoles, SQL repository: role ids
getUserRoles(userId) ==
  SortIds({r \in DOMAIN roles : <<userId, r>> \in user_roles /\ roles[r].status = 1})

\* include: [{ model: Role, as: 'roles', where: { status: 1 }, required: false }]
IncludedRoles(userId) ==
  SortIds({r \in DOMAIN roles : <<userId, r>> \in user_roles /\ roles[r].status = 1})

\* include: [{ model: Permission, as: 'permissions', where: { status: 1 }, required: false }]
IncludedPermissions(roleId) ==
  SortIds({p \in DOMAIN permissions :
             <<roleId, p>> \in role_permissions /\ permissions[p].status = 1})

\* UserRepository.getUserPermissions, Sequelize repository: permission ids
getUserPermissionsOrm(userId) ==
  IF userId \notin DOMAIN users THEN <<>>
  ELSE LET userRoles == IncludedRoles(userId)
       IN  Distinct(Flatten([i \in 1..Len(userRoles) |-> IncludedPermissions(userRoles[i])]))

\* ORDER BY p.sort_order, p.id
PermissionLe(x, y) ==
  \/ permissions[x].sort_order < permissions[y].sort_order
  \/ permissions[x].sort_order = permissions[y].sort_order /\ x <= y

RECURSIVE OrderPermissions(_)
OrderPermissions(S) ==
  IF S = {} THEN <<>>
  ELSE LET m == CHOOSE x \in S : \A y \in S : PermissionLe(x, y)
       IN  <<m>> \o OrderPermissions(S \ {m})

\* RoleRepository.getRolePermissions, SQL repository: permission ids
getRolePermissions(roleId) ==
  OrderPermissions({p \in DOMAIN permissions :
                      <<roleId, p>> \in role_permissions /\ permissions[p].status = 1})

\* ---------------------------------------------------------------- Koa context
\* The context of the request handled last. handler: the middleware or controller
\* that ended it; userId: ctx.state.userId (0: unset); required: the codes the gate
\* was built with; status: the HTTP status written; data: the response body's data;
\* token: the bearer token the request carried
NoToken == [id |-> 0, exp |-> 0, signed |-> FALSE]

NoCtx ==
  [handler |-> "none", userId |-> 0, required |-> {}, status |-> 0,
   nextCalled |-> FALSE, data |-> <<>>, token |-> NoToken]

\* Response.error(ctx, message, -1, status), next() not called
ResponseError(handler, userId, required, status) ==
  [handler |-> handler, userId |-> userId, required |-> required, status |-> status,
   nextCalled |-> FALSE, data |-> <<>>, token |-> NoToken]

\* Response.success(ctx, data) of a controller
ResponseSuccess(handler, data) ==
  [handler |-> handler, userId |-> 0, required |-> {}, status |-> 200,
   nextCalled |-> FALSE, data |-> data, token |-> NoToken]

\* await next(): the downstream handler answers 200
Downstream(handler, userId, required) ==
  [handler |-> handler, userId |-> userId, required |-> required, status |-> 200,
   nextCalled |-> TRUE, data |-> <<>>, token |-> NoToken]

\* await next() rejected: the middleware's own catch block answers with catchStatus
DownstreamThrew(handler, userId, required, catchStatus) ==
  [handler |-> handler, userId |-> userId, required |-> required, status |-> catchStatus,
   nextCalled |-> TRUE, data |-> <<>>, token |-> NoToken]

\* ---------------------------------------------------------------- credential store: writes
\* DELETE FROM t WHERE owner = ?; INSERT INTO t VALUES (owner, id)...; as committed
\* the insert without the delete (mutation of ReplaceRows)
ReplaceRows_keepOld(rows, ownerId, ids) ==
  rows \cup {<<ownerId, i>> : i \in ids}

ReplaceRows(rows, ownerId, ids) ==
  {row \in rows : row[1] # ownerId} \cup {<<ownerId, i>> : i \in ids}

\* UserController.assignRoles -> UserService.assignRoles over the SQL repository, the
\* request as a whole: the user and every role id exist, the transaction commits
assignRoles(id, roleIds) ==
  /\ findById(users, id) # Null
  /\ \A roleId \in roleIds : findById(roles, roleId) # Null
  /\ user_roles' = ReplaceRows(user_roles, id, roleIds)
  /\ ctx' = ResponseSuccess("assignRoles", <<>>)
  /\ UNCHANGED <<users, roles, permissions, role_permissions, tokens, now, call, redis>>

\* RoleController.assignPermissions -> RoleService.assignPermissions over the SQL
\* repository, the request as a whole
assignPermissions(id, permissionIds) ==
  /\ findById(roles, id) # Null
  /\ \A permissionId \in permissionIds : findById(permissions, permissionId) # Null
  /\ role_permissions' = ReplaceRows(role_permissions, id, permissionIds)
  /\ ctx' = ResponseSuccess("assignPermissions", <<>>)
  /\ UNCHANGED <<users, roles, permissions, user_roles, tokens, now, call, redis>>

\* RoleService.updateRole(id, { status })
updateRole(id, status) ==
  /\ findById(roles, id) # Null
  /\ roles' = [roles EXCEPT ![id].status = status]
  /\ ctx' = ResponseSuccess("updateRole", <<>>)
  /\ UNCHANGED <<users, permissions, user_roles, role_permissions, tokens, now, call, redis>>

\* PermissionService.updatePermission(id, { status })
updatePermissionStatus(id, status) ==
  /\ findById(permissions, id) # Null
  /\ permissions' = [permissions EXCEPT ![id].status = status]
  /\ ctx' = ResponseSuccess("updatePermission", <<>>)
  /\ UNCHANGED <<users, roles, user_roles, role_permissions, tokens, now, call, redis>>

StoreWrite ==
  \/ \E id \in UserIds, roleIds \in SUBSET RoleIds : assignRoles(id, roleIds)
  \/ \E id \in RoleIds, permissionIds \in SUBSET PermIds : assignPermissions(id, permissionIds)
  \/ \E id \in RoleIds, status \in {0, 1} : updateRole(id, status)
  \/ \E id \in PermIds, status \in {0, 1} : updatePermissionStatus(id, status)

\* ---------------------------------------------------------------- authorization gates
hasPermission_every(required, held) == \A code \in required : code \in held

\* permissions.some((permission) => userPermissionCodes.includes(permission))
hasPermission(required, held) == \E code \in required : code \in held

\* userPermissions.map((p) => p.code)
PermissionCodesOf(rows) == {permissions[rows[i]].code : i \in DOMAIN rows}

\* userRoles.map((r) => r.code)
RoleCodesOf(rows) == {roles[rows[i]].code : i \in DOMAIN rows}

\* middleware/permission.js requirePermission(requiredPermissions)(ctx, next);
\* userId is ctx.state.userId (0: unset), lookupFails: getUserPermissions rejects,
\* nextThrows: the downstream handler rejects
requirePermission(userId, requiredPermissions, lookupFails, nextThrows) ==
  /\ ctx' =
       IF userId = 0 THEN ResponseError("requirePermission", userId, requiredPermissions, 401)
       ELSE IF lookupFails
         THEN ResponseError("requirePermission", userId, requiredPermissions, 500)
       ELSE LET userPermissionCodes == PermissionCodesOf(getUserPermissions(userId))
            IN  IF ~hasPermission(requiredPermissions, userPermissionCodes)
                  THEN ResponseError("requirePermission", userId, requiredPermissions, 403)
                ELSE IF nextThrows
                  THEN DownstreamThrew("requirePermission", userId, requiredPermissions, 500)
                ELSE Downstream("requirePermission", userId, requiredPermissions)
  /\ UNCHANGED <<users, roles, permissions, user_roles, role_permissions, tokens, now, call, redis>>

requireRole_failOpen(userId, requiredRoles, lookupFails, nextThrows) ==
  /\ ctx' =
       IF userId = 0 THEN ResponseError("requireRole", userId, requiredRoles, 401)
       ELSE IF lookupFails THEN Downstream("requireRole", userId, requiredRoles)
       ELSE LET userRoleCodes == RoleCodesOf(getUserRoles(userId))
            IN  IF ~hasPermission(requiredRoles, userRoleCodes)
                  THEN ResponseError("requireRole", userId, requiredRoles, 403)
                ELSE IF nextThrows
                  THEN DownstreamThrew("requireRole", userId, requiredRoles, 500)
                ELSE Downstream("requireRole", userId, requiredRoles)
  /\ UNCHANGED <<users, roles, permissions, user_roles, role_permissions, tokens, now, call, redis>>

\* middleware/permission.js requireRole(requiredRoles)(ctx, next)
requireRole(userId, requiredRoles, lookupFails, nextThrows) ==
  /\ ctx' =
       IF userId = 0 THEN ResponseError("requireRole", userId, requiredRoles, 401)
       ELSE IF lookupFails THEN ResponseError("requireRole", userId, requiredRoles, 500)
       ELSE LET userRoleCodes == RoleCodesOf(getUserRoles(userId))
            IN  IF ~hasPermission(requiredRoles, userRoleCodes)
                  THEN ResponseError("requireRole", userId, requiredRoles, 403)
                ELSE IF nextThrows
                  THEN DownstreamThrew("requireRole", userId, requiredRoles, 500)
                ELSE Downstream("requireRole", userId, requiredRoles)
  /\ UNCHANGED <<users, roles, permissions, user_roles, role_permissions, tokens, now, call, redis>>

\* middleware/permission.js requireSuperAdmin(ctx, next)
requireSuperAdmin(userId, lookupFails, nextThrows) ==
  /\ ctx' =
       IF userId = 0 THEN ResponseError("requireSuperAdmin", userId, {"super_admin"}, 401)
       ELSE IF lookupFails
         THEN ResponseError("requireSuperAdmin", userId, {"super_admin"}, 500)
       ELSE LET userRoles == getUserRoles(userId)
                isSuperAdmin ==
                  \E i \in DOMAIN userRoles : roles[userRoles[i]].code = "super_admin"
            IN  IF ~isSuperAdmin
                  THEN ResponseError("requireSuperAdmin", userId, {"super_admin"}, 403)
                ELSE IF nextThrows
                  THEN DownstreamThrew("requireSuperAdmin", userId, {"super_admin"}, 500)
                ELSE Downstream("requireSuperAdmin", userId, {"super_admin"})
  /\ UNCHANGED <<users, roles, permissions, user_roles, role_permissions, tokens, now, call, redis>>

\* ---------------------------------------------------------------- specification: the gates
SeedUsers == [id \in UserIds |-> [status |-> 1]]

SeedRoles == [id \in RoleIds |-> [code |-> RoleCodeOf(id), status |-> 1]]

\* INSERT INTO permissions: user:manage is a root, the user:* rows are its children
SeedParentOf(id) == IF id = 1 THEN 0 ELSE 1

SeedPermissions ==
  [id \in PermIds |->
     [code |-> PermCodeOf(id), parent_id |-> SeedParentOf(id), sort_order |-> 0, status |-> 1]]

\* the Redis store with no key
NoRedis == <<>>

NoCall ==
  [pc |-> "idle", op |-> "", impl |-> "", id |-> 0, ids |-> <<>>, i |-> 0, before |-> {},
   found |-> {}, obsolete |-> {}, unassociated |-> {}, destroyed |-> FALSE,
   created |-> FALSE, error |-> <<>>, clean |-> TRUE]

InitGate ==
  /\ users = SeedUsers
  /\ roles = SeedRoles
  /\ permissions = SeedPermissions
  /\ user_roles = {}
  /\ role_permissions = {}
  /\ ctx = NoCtx
  /\ tokens = {}
  /\ now = 0
  /\ call = NoCall
  /\ redis = NoRedis

\* the gate's inputs: a lookup can only fail, and the handler only throw, once reached
GateInputs ==
  {in \in [userId : {0} \cup UserIds, lookupFails : BOOLEAN, nextThrows : BOOLEAN] :
     /\ in.userId = 0 => ~in.lookupFails
     /\ in.lookupFails => ~in.nextThrows}

NextGate ==
  \/ StoreWrite
  \/ \E in \in GateInputs, required \in SUBSET PermCodes :
       requirePermission(in.userId, required, in.lookupFails, in.nextThrows)
  \/ \E in \in GateInputs, required \in SUBSET RoleCodes :
       requireRole(in.userId, required, in.lookupFails, in.nextThrows)
  \/ \E in \in GateInputs :
       requireSuperAdmin(in.userId, in.lookupFails, in.nextThrows)

SpecGate == InitGate /\ [][NextGate]_vars

\* The permissions section 4.2 gives user u: the enabled permissions p with
\* (u, r) in UserRole and (r, p) in RolePermission for some role r
GrantedPermissions(u) ==
  {p \in DOMAIN permissions :
     /\ permissions[p].status = 1
     /\ \E r \in RoleIds : <<u, r>> \in user_roles /\ <<r, p>> \in role_permissions}

GrantedCodes(u) == {permissions[p].code : p \in GrantedPermissions(u)}

\* The same, following only the roles whose status is enabled
PermissionsViaEnabledRoles(u) ==
  {p \in DOMAIN permissions :
     /\ permissions[p].status = 1
     /\ \E r \in DOMAIN roles :
          roles[r].status = 1 /\ <<u, r>> \in user_roles /\ <<r, p>> \in role_permissions}

CodesViaEnabledRoles(u) == {permissions[p].code : p \in PermissionsViaEnabledRoles(u)}

\* The enabled roles of user u, as codes
EnabledRoleCodes(u) ==
  {roles[r].code : r \in {x \in DOMAIN roles : roles[x].status = 1 /\ <<u, x>> \in user_roles}}

\* a gate's lookup answered: it decided on the codes it fetched
Decided == ctx.userId # 0 /\ (ctx.nextCalled \/ ctx.status = 403)

\* C1: whenever requirePermission(codes) decides a request of an authenticated user
\* (its lookup answered), the next handler runs if and only if at least one required
\* code is among the codes of the user's permissions at that moment; otherwise the
\* answer is 403 and the next handler does not run.
C1_RequirePermissionAnyOf ==
  (ctx.handler = "requirePermission" /\ Decided) =>
     /\ ctx.nextCalled <=> (ctx.required \cap GrantedCodes(ctx.userId) # {})
     /\ ~ctx.nextCalled => ctx.status = 403

\* C1 witness: requirePermission built with two codes let a user through who holds
\* only one of them
C1_Witness ==
  /\ ctx.handler = "requirePermission"
  /\ ctx.nextCalled /\ ctx.status = 200
  /\ Cardinality(ctx.required) = 2
  /\ Cardinality(ctx.required \cap GrantedCodes(ctx.userId)) = 1

\* C2: the three gates fail closed: without an identity the answer is 401 and the
\* next handler does not run, an answer of a gate whose lookup failed is an error
\* without next(), and a gate never calls next() without an identity and a positive
\* match.
C2_GatesFailClosed ==
  /\ (ctx.handler \in {"requirePermission", "requireRole", "requireSuperAdmin"}
        /\ ctx.userId = 0)
     => ctx.status = 401 /\ ~ctx.nextCalled
  /\ (ctx.handler = "requirePermission" /\ ctx.nextCalled)
     => ctx.userId # 0 /\ ctx.required \cap GrantedCodes(ctx.userId) # {}
  /\ (ctx.handler \in {"requireRole", "requireSuperAdmin"} /\ ctx.nextCalled)
     => ctx.userId # 0 /\ ctx.required \cap EnabledRoleCodes(ctx.userId) # {}
  /\ (ctx.handler \in {"requirePermission", "requireRole", "requireSuperAdmin"}
        /\ ~ctx.nextCalled)
     => ctx.status \in {401, 403, 500}

\* C2 witness: a role gate answered 500 without next() although the user holds the
\* required role, which happens only when its lookup failed
C2_Witness ==
  /\ ctx.handler = "requireRole"
  /\ ctx.userId # 0
  /\ ctx.status = 500 /\ ~ctx.nextCalled
  /\ ctx.required \cap EnabledRoleCodes(ctx.userId) # {}

\* C5: a permission a user holds solely through disabled roles is not returned by
\* getUserPermissions and does not satisfy requirePermission.
C5_OnlyEnabledRolesGrant ==
  /\ \A u \in UserIds : Range(getUserPermissions(u)) \subseteq PermissionsViaEnabledRoles(u)
  /\ (ctx.handler = "requirePermission" /\ ctx.nextCalled)
     => ctx.required \cap CodesViaEnabledRoles(ctx.userId) # {}

\* ---------------------------------------------------------------- specification: the resolver
\* a request answered with UserRepository.getUserPermissions(userId), SQL repository
readUserPermissions(userId) ==
  /\ ctx' = [ResponseSuccess("getUserPermissions", getUserPermissions(userId))
               EXCEPT !.userId = userId]
  /\ UNCHANGED <<users, roles, permissions, user_roles, role_permissions, tokens, now, call, redis>>

\* a request answered with UserRepository.getUserPermissions(userId), Sequelize repository
readUserPermissionsOrm(userId) ==
  /\ ctx' = [ResponseSuccess("getUserPermissionsOrm", getUserPermissionsOrm(userId))
               EXCEPT !.userId = userId]
  /\ UNCHANGED <<users, roles, permissions, user_roles, role_permissions, tokens, now, call, redis>>

NextResolve ==
  \/ StoreWrite
  \/ \E userId \in UserIds : readUserPermissions(userId)
  \/ \E userId \in UserIds : readUserPermissionsOrm(userId)

SpecResolve == InitGate /\ [][NextResolve]_vars

NoDuplicates(s) == \A i, j \in DOMAIN s : s[i] = s[j] => i = j

\* C4 as stated: whichever repository answers, getUserPermissions(u) is exactly the
\* set of enabled permissions some role of u grants, each id once.
C4_UnionOverAllRoles ==
  ctx.handler \in {"getUserPermissions", "getUserPermissionsOrm"} =>
     /\ NoDuplicates(ctx.data)
     /\ Range(ctx.data) = GrantedPermissions(ctx.userId)

\* C4 amended: each id appears once and disabled permissions never appear; the SQL
\* repository returns the enabled permissions granted by any role of u, the Sequelize
\* repository those granted by the enabled roles of u.
C4_UnionPerRepository ==
  /\ ctx.handler = "getUserPermissions" =>
       /\ NoDuplicates(ctx.data)
       /\ Range(ctx.data) = GrantedPermissions(ctx.userId)
  /\ ctx.handler = "getUserPermissionsOrm" =>
       /\ NoDuplicates(ctx.data)
       /\ Range(ctx.data) = PermissionsViaEnabledRoles(ctx.userId)

\* C4 witness: two roles of the user grant the same permission and it is returned
\* once, while another permission granted to the user is disabled and left out
C4_Witness ==
  /\ ctx.handler = "getUserPermissions"
  /\ Len(ctx.data) = 1
  /\ Cardinality({r \in RoleIds : /\ <<ctx.userId, r>> \in user_roles
                                  /\ <<r, ctx.data[1]>> \in role_permissions}) = 2
  /\ \E p \in DOMAIN permissions, r \in RoleIds :
       /\ permissions[p].status = 0
       /\ <<ctx.userId, r>> \in user_roles /\ <<r, p>> \in role_permissions

\* ---------------------------------------------------------------- authenticator
\* jwtConfig.expiresIn = '24h', in hours
TokenTtl == 24

\* generateToken({ id, username, email }): signed with the server's secret
generateToken(id) == [id |-> id, exp |-> now + TokenTtl, signed |-> TRUE]

\* verifyToken(token): jwt.verify throws on a bad signature and from exp on
verifyToken(token) == token.signed /\ now < token.exp

\* AuthService.login: the user exists, is not disabled and the password matches
login(id) ==
  /\ findById(users, id) # Null
  /\ users[id].status # 0
  /\ Cardinality(tokens) < MaxTokens
  /\ tokens' = tokens \cup {generateToken(id)}
  /\ ctx' = ResponseSuccess("login", <<>>)
  /\ UNCHANGED <<users, roles, permissions, user_roles, role_permissions, now, call, redis>>

\* UserService.updateUser(id, { status })
updateUser(id, status) ==
  /\ findById(users, id) # Null
  /\ users' = [users EXCEPT ![id].status = status]
  /\ ctx' = ResponseSuccess("updateUser", <<>>)
  /\ UNCHANGED <<roles, permissions, user_roles, role_permissions, tokens, now, call, redis>>

\* UserService.deleteUser(id, currentUserId); user_roles rows go by ON DELETE CASCADE
deleteUser(id, currentUserId) ==
  /\ id # currentUserId
  /\ findById(users, id) # Null
  /\ users' = [u \in DOMAIN users \ {id} |-> users[u]]
  /\ user_roles' = {row \in user_roles : row[1] # id}
  /\ ctx' = ResponseSuccess("deleteUser", <<>>)
  /\ UNCHANGED <<roles, permissions, role_permissions, tokens, now, call, redis>>

\* twelve hours pass
Tick ==
  /\ now + 12 <= MaxTime
  /\ now' = now + 12
  /\ UNCHANGED <<users, roles, permissions, user_roles, role_permissions, ctx, tokens, call, redis>>

\* the answer of either authenticate middleware; header: "absent", "empty" (no token
\* after the Bearer prefix) or "bearer" carrying token
AuthOutcome(handler, header, token, nextThrows, statusChecked) ==
  LET deny == [ResponseError(handler, 0, {}, 401) EXCEPT !.token = token]
      user == findById(users, token.id)
  IN  IF header # "bearer" THEN [deny EXCEPT !.token = NoToken]
      ELSE IF ~verifyToken(token) THEN deny
      ELSE IF user = Null THEN deny
      ELSE IF statusChecked /\ user[1].status = 0 THEN deny
      ELSE IF nextThrows
        THEN [DownstreamThrew(handler, token.id, {}, 401) EXCEPT !.token = token]
      ELSE [Downstream(handler, token.id, {}) EXCEPT !.token = token]

authenticate_noStatusCheck(header, token, nextThrows) ==
  /\ ctx' = AuthOutcome("authenticate", header, token, nextThrows, FALSE)
  /\ UNCHANGED <<users, roles, permissions, user_roles, role_permissions, tokens, now, call, redis>>

\* middleware/auth.js authenticate(ctx, next)
authenticate(header, token, nextThrows) ==
  /\ ctx' = AuthOutcome("authenticate", header, token, nextThrows, TRUE)
  /\ UNCHANGED <<users, roles, permissions, user_roles, role_permissions, tokens, now, call, redis>>

\* middleware/security.js authenticate(ctx, next): header or cookie, same checks
authenticateSecurity(header, token, nextThrows) ==
  /\ ctx' = AuthOutcome("authenticateSecurity", header, token, nextThrows, TRUE)
  /\ UNCHANGED <<users, roles, permissions, user_roles, role_permissions, tokens, now, call, redis>>

\* the tokens a client can present: the issued ones and forgeries of them
PresentableTokens == tokens \cup {[t EXCEPT !.signed = FALSE] : t \in tokens}

AuthInputs ==
  {in \in [header : {"absent", "empty", "bearer"}, token : PresentableTokens \cup {NoToken},
           nextThrows : BOOLEAN] :
     /\ in.header # "bearer" <=> in.token = NoToken
     /\ in.header # "bearer" => ~in.nextThrows}

InitAuth ==
  /\ users = SeedUsers
  /\ roles = SeedRoles
  /\ permissions = SeedPermissions
  /\ user_roles = {<<1, 1>>}
  /\ role_permissions = {}
  /\ ctx = NoCtx
  /\ tokens = {}
  /\ now = 0
  /\ call = NoCall
  /\ redis = NoRedis

NextAuth ==
  \/ \E id \in UserIds : login(id)
  \/ \E id \in UserIds, status \in {0, 1} : updateUser(id, status)
  \/ \E id \in UserIds, currentUserId \in UserIds : deleteUser(id, currentUserId)
  \/ Tick
  \/ \E in \in AuthInputs : authenticate(in.header, in.token, in.nextThrows)
  \/ \E in \in AuthInputs : authenticateSecurity(in.header, in.token, in.nextThrows)

SpecAuth == InitAuth /\ [][NextAuth]_vars

\* C3: an authenticate call carrying an issued, unexpired, correctly signed token of
\* a user who is disabled or deleted answers 401, sets no identity and does not call
\* the next handler.
C3_DisabledOrDeletedRejected ==
  (/\ ctx.handler \in {"authenticate", "authenticateSecurity"}
   /\ ctx.token \in tokens
   /\ now < ctx.token.exp
   /\ \/ ctx.token.id \notin DOMAIN users
      \/ users[ctx.token.id].status = 0)
  => ctx.status = 401 /\ ctx.userId = 0 /\ ~ctx.nextCalled

\* C3 witness: a user logged in, was disabled afterwards, and the still valid token
\* was refused
C3_Witness ==
  /\ ctx.handler = "authenticate"
  /\ ctx.token \in tokens /\ now < ctx.token.exp
  /\ ctx.token.id \in DOMAIN users /\ users[ctx.token.id].status = 0
  /\ ctx.status = 401 /\ ~ctx.nextCalled

\* ---------------------------------------------------------------- assignment, step by step
\* One assignment request in flight, every await of it a step of its own, with the
\* deletes and reads of other requests between the steps.  call.op names the service
\* method, call.impl the repository it runs over ("sql": mysql2 pool, "orm": Sequelize).
MaxList == 2

AssignOps == {"assignRoles", "assignPermissions"}

\* users for assignRoles, roles for assignPermissions
OwnerTable(op) == IF op = "assignRoles" THEN users ELSE roles

\* roles for assignRoles, permissions for assignPermissions
TargetTable(op) == IF op = "assignRoles" THEN roles ELSE permissions

OwnerIds(op) == IF op = "assignRoles" THEN UserIds ELSE RoleIds

TargetIds(op) == IF op = "assignRoles" THEN RoleIds ELSE PermIds

\* user_roles for assignRoles, role_permissions for assignPermissions
AssocRows(op) == IF op = "assignRoles" THEN user_roles ELSE role_permissions

\* the committed association set of one owner
OwnerRows(op, id) == {row[2] : row \in {r \in AssocRows(op) : r[1] = id}}

WriteRows(op, rows) ==
  IF op = "assignRoles"
  THEN user_roles' = rows /\ UNCHANGED role_permissions
  ELSE role_permissions' = rows /\ UNCHANGED user_roles

\* request bodies: role_ids / permission_ids, in list order, repeats allowed
IdLists(op) ==
  UNION {[1..n -> TargetIds(op)] : n \in 0..MaxList}

\* error.message of the thrown Error
OwnerNotFound == <<"OwnerNotFound">>
TargetNotFound(id) == <<"TargetNotFound", id>>
InsertFailed == <<"InsertFailed">>

\* controller: Response.success / Response.error(ctx, error.message, -1, 500)
AssignResponse(op, error) ==
  IF error = <<>> THEN ResponseSuccess(op, <<>>) ELSE ResponseError(op, 0, {}, 500)

\* the call has returned to its controller
Finish(c, error) == [c EXCEPT !.pc = "done", !.error = error]

\* the first repository statement after the service's validation
RepositoryEntry(impl) == IF impl = "sql" THEN "tx" ELSE "set"

\* UserService.assignRoles / RoleService.assignPermissions, first await: the owner lookup
serviceAssign(op, impl, id, ids) ==
  /\ call.pc \in {"idle", "done"}
  /\ LET entered == [NoCall EXCEPT !.op = op, !.impl = impl, !.id = id, !.ids = ids,
                                   !.i = 1, !.before = OwnerRows(op, id)]
     IN IF findById(OwnerTable(op), id) = Null
        THEN /\ call' = Finish(entered, OwnerNotFound)
             /\ ctx' = AssignResponse(op, OwnerNotFound)
        ELSE /\ call' = [entered EXCEPT
                           !.pc = IF ids = <<>> THEN RepositoryEntry(impl) ELSE "validate"]
             /\ ctx' = NoCtx
  /\ UNCHANGED <<dbVars, tokens, now, redis>>

\* the validation loop with its test removed (mutation of serviceValidate)
serviceValidate_noCheck ==
  /\ call.pc = "validate"
  /\ call' = [call EXCEPT !.i = @ + 1,
                          !.pc = IF call.i = Len(call.ids)
                                 THEN RepositoryEntry(call.impl) ELSE "validate"]
  /\ ctx' = NoCtx
  /\ UNCHANGED <<dbVars, tokens, now, redis>>

\* for (const roleId of roleIds) { findById(roleId); if (!role) throw ... }: one pass
serviceValidate ==
  /\ call.pc = "validate"
  /\ LET targetId == call.ids[call.i]
     IN IF findById(TargetTable(call.op), targetId) = Null
        THEN /\ call' = Finish(call, TargetNotFound(targetId))
             /\ ctx' = AssignResponse(call.op, TargetNotFound(targetId))
        ELSE /\ call' = [call EXCEPT !.i = @ + 1,
                                     !.pc = IF call.i = Len(call.ids)
                                            THEN RepositoryEntry(call.impl) ELSE "validate"]
             /\ ctx' = NoCtx
  /\ UNCHANGED <<dbVars, tokens, now, redis>>

\* SQL repository: beginTransaction; DELETE FROM user_roles WHERE user_id = ?
\* (uncommitted: other connections keep reading the committed rows)
repositoryDelete ==
  /\ call.pc = "tx"
  /\ call' = [call EXCEPT !.pc = "deleted"]
  /\ ctx' = NoCtx
  /\ UNCHANGED <<dbVars, tokens, now, redis>>

\* the multi-row INSERT is rejected on a repeated pair (unique key) or on an id whose
\* row is gone (foreign key)
InsertAccepted(op, id, ids) ==
  /\ NoDuplicates(ids)
  /\ findById(OwnerTable(op), id) # Null
  /\ \A k \in DOMAIN ids : findById(TargetTable(op), ids[k]) # Null

\* SQL repository: if (roleIds.length > 0) INSERT ...; catch: rollback, throw
repositoryInsert ==
  /\ call.pc = "deleted"
  /\ Len(call.ids) > 0
  /\ IF InsertAccepted(call.op, call.id, call.ids)
     THEN /\ call' = [call EXCEPT !.pc = "inserted"]
          /\ ctx' = NoCtx
     ELSE /\ call' = Finish(call, InsertFailed)
          /\ ctx' = AssignResponse(call.op, InsertFailed)
  /\ UNCHANGED <<dbVars, tokens, now, redis>>

\* SQL repository: connection.commit(): the delete and the insert become visible at once
repositoryCommit ==
  /\ \/ call.pc = "inserted"
     \/ call.pc = "deleted" /\ Len(call.ids) = 0
  /\ WriteRows(call.op, ReplaceRows(AssocRows(call.op), call.id, Range(call.ids)))
  /\ call' = Finish(call, <<>>)
  /\ ctx' = AssignResponse(call.op, <<>>)
  /\ UNCHANGED <<users, roles, permissions, tokens, now, redis>>

\* rows the open transaction holds locks on: a delete that touches them waits for the
\* commit or the rollback
TargetLocked(op, targetId) ==
  /\ call.impl = "sql" /\ call.op = op
  /\ \/ call.pc \in {"deleted", "inserted"} /\ targetId \in OwnerRows(op, call.id)
     \/ call.pc = "inserted" /\ targetId \in Range(call.ids)

OwnerLocked(op, ownerId) ==
  /\ call.impl = "sql" /\ call.op = op /\ call.id = ownerId
  /\ \/ call.pc \in {"deleted", "inserted"} /\ OwnerRows(op, ownerId) # {}
     \/ call.pc = "inserted"

\* Sequelize repository: findById(userId), throw if none; Role.findAll({ id in roleIds })
setFind ==
  /\ call.pc = "set"
  /\ IF findById(OwnerTable(call.op), call.id) = Null
     THEN /\ call' = Finish(call, OwnerNotFound)
          /\ ctx' = AssignResponse(call.op, OwnerNotFound)
     ELSE /\ call' = [call EXCEPT !.pc = "found",
                                  !.found = Range(call.ids) \cap DOMAIN TargetTable(call.op)]
          /\ ctx' = NoCtx
  /\ UNCHANGED <<dbVars, tokens, now, redis>>

\* user.setRoles(roles), first await: the owner's current rows are read and split into
\* the obsolete rows and the targets not yet associated; nothing to do ends the call
setCurrent ==
  /\ call.pc = "found"
  /\ LET currentRows == OwnerRows(call.op, call.id)
         obsolete == currentRows \ call.found
         unassociated == call.found \ currentRows
     IN IF obsolete = {} /\ unassociated = {}
        THEN /\ call' = Finish(call, <<>>)
             /\ ctx' = AssignResponse(call.op, <<>>)
        ELSE /\ call' = [call EXCEPT !.pc = "write",
                                     !.obsolete = obsolete,
                                     !.unassociated = unassociated,
                                     !.destroyed = (obsolete = {}),
                                     !.created = (unassociated = {})]
             /\ ctx' = NoCtx
  /\ UNCHANGED <<dbVars, tokens, now, redis>>

\* the call returns when both statements of Promise.all have settled
Settled(c) ==
  IF c.destroyed /\ c.created THEN [c EXCEPT !.pc = "done"] ELSE c

SettledResponse(c) ==
  IF c.destroyed /\ c.created THEN AssignResponse(c.op, c.error) ELSE NoCtx

\* user.setRoles(roles): through.destroy({ where: obsolete }), its own statement,
\* committed as it runs
setDestroy ==
  /\ call.pc = "write"
  /\ ~call.destroyed
  /\ WriteRows(call.op, AssocRows(call.op) \ {<<call.id, t>> : t \in call.obsolete})
  /\ LET c == [call EXCEPT !.destroyed = TRUE]
     IN  call' = Settled(c) /\ ctx' = SettledResponse(c)
  /\ UNCHANGED <<users, roles, permissions, tokens, now, redis>>

\* user.setRoles(roles): through.bulkCreate(unassociated), its own statement; rejected
\* when a referenced row is gone, and then no row of it is stored
setBulkCreate ==
  /\ call.pc = "write"
  /\ ~call.created
  /\ LET accepted == /\ findById(OwnerTable(call.op), call.id) # Null
                     /\ call.unassociated \subseteq DOMAIN TargetTable(call.op)
                     /\ \A t \in call.unassociated : <<call.id, t>> \notin AssocRows(call.op)
         c == [call EXCEPT !.created = TRUE,
                           !.error = IF accepted THEN @ ELSE InsertFailed]
     IN  /\ IF accepted
            THEN WriteRows(call.op,
                           AssocRows(call.op) \cup {<<call.id, t>> : t \in call.unassociated})
            ELSE UNCHANGED <<user_roles, role_permissions>>
         /\ call' = Settled(c)
         /\ ctx' = SettledResponse(c)
  /\ UNCHANGED <<users, roles, permissions, tokens, now, redis>>

\* a write of another request lands while the call is between two of its awaits
Interleaved == IF call.pc \in {"idle", "done"} THEN call ELSE [call EXCEPT !.clean = FALSE]

\* RoleService.deleteRole(id): the role exists, no user holds it; the role's rows in
\* role_permissions go with it (ON DELETE CASCADE)
deleteRole(id) ==
  /\ findById(roles, id) # Null
  /\ {row \in user_roles : row[2] = id} = {}
  /\ ~TargetLocked("assignRoles", id)
  /\ ~OwnerLocked("assignPermissions", id)
  /\ roles' = [r \in DOMAIN roles \ {id} |-> roles[r]]
  /\ role_permissions' = {row \in role_permissions : row[1] # id}
  /\ call' = Interleaved
  /\ ctx' = ResponseSuccess("deleteRole", <<>>)
  /\ UNCHANGED <<users, permissions, user_roles, tokens, now, redis>>

\* PermissionService.deletePermission(id): the permission exists, has no child; its
\* rows in role_permissions go with it (ON DELETE CASCADE)
deletePermission(id) ==
  /\ findById(permissions, id) # Null
  /\ {p \in DOMAIN permissions : permissions[p].parent_id = id} = {}
  /\ ~TargetLocked("assignPermissions", id)
  /\ permissions' = [p \in DOMAIN permissions \ {id} |-> permissions[p]]
  /\ role_permissions' = {row \in role_permissions : row[2] # id}
  /\ call' = Interleaved
  /\ ctx' = ResponseSuccess("deletePermission", <<>>)
  /\ UNCHANGED <<users, roles, user_roles, tokens, now, redis>>

\* what a read of the owner's association set answers: getUserRoles / getRolePermissions
readOwner(op, id) == IF op = "assignRoles" THEN getUserRoles(id) ELSE getRolePermissions(id)

\* a read request of another client, answered while the call is in flight
concurrentRead ==
  /\ call.pc \notin {"idle", "done"}
  /\ ctx' = [ResponseSuccess("read", readOwner(call.op, call.id)) EXCEPT !.userId = call.id]
  /\ UNCHANGED <<dbVars, tokens, now, call, redis>>

\* the seed's single user; every seeded role and permission
InitAssign ==
  /\ users = [id \in {1} |-> [status |-> 1]]
  /\ roles = SeedRoles
  /\ permissions = SeedPermissions
  /\ user_roles = {}
  /\ role_permissions = {}
  /\ ctx = NoCtx
  /\ tokens = {}
  /\ now = 0
  /\ call = NoCall
  /\ redis = NoRedis

NextAssign ==
  \/ \E op \in AssignOps, impl \in {"sql", "orm"} :
       \E id \in OwnerIds(op), ids \in IdLists(op) : serviceAssign(op, impl, id, ids)
  \/ serviceValidate
  \/ repositoryDelete
  \/ repositoryInsert
  \/ repositoryCommit
  \/ setFind
  \/ setCurrent
  \/ setDestroy
  \/ setBulkCreate
  \/ concurrentRead
  \/ \E id \in RoleIds : deleteRole(id)
  \/ \E id \in PermIds : deletePermission(id)
  \/ \E id \in PermIds, status \in {0, 1} : updatePermissionStatus(id, status)

SpecAssign == InitAssign /\ [][NextAssign]_vars

\* the call is between its first await and its return
InFlight == call.pc \notin {"idle", "done"}

\* the state in which the call has just answered its client
Returned == call.pc = "done" /\ ctx.handler = call.op

\* the members of a stored set that the cascading deletes of other requests have left
Surviving(op, id, S) ==
  IF id \in DOMAIN OwnerTable(op) THEN S \cap DOMAIN TargetTable(op) ELSE {}

\* what a read answers for a stored set: its members that exist with status = 1
Visible(op, id, S) ==
  {t \in Surviving(op, id, S) : TargetTable(op)[t].status = 1}

\* the first id of the list, in list order, that names no row (0: none)
FirstMissing(op, ids) ==
  LET missing == {k \in DOMAIN ids : ids[k] \notin DOMAIN TargetTable(op)}
  IN  IF missing = {} THEN 0
      ELSE ids[CHOOSE k \in missing : \A j \in missing : k <= j]

\* C6: a read answered while an assignment of the same owner is in flight sees the
\* owner's complete association set from before the assignment or the complete new
\* set S, never a state between the delete and the insert.
C6_ReadsSeeBeforeOrAfter ==
  (InFlight /\ ctx.handler = "read") =>
     Range(ctx.data) \in {Visible(call.op, call.id, call.before),
                          Visible(call.op, call.id, Range(call.ids))}

\* C7 as stated: after a successful assignRolePermissions(r, S) with no other write in
\* between, getRolePermissions(r) returns exactly the ids in S, and after a successful
\* assignUserRoles(u, S) user u has exactly the roles in S.
C7_FullReplacement ==
  (Returned /\ call.error = <<>> /\ call.clean) =>
     IF call.op = "assignPermissions"
     THEN Range(getRolePermissions(call.id)) = Range(call.ids)
     ELSE OwnerRows(call.op, call.id) = Range(call.ids)

\* C7: after a successful assignment the owner's stored rows are exactly those of S
\* (of the members of S that still exist), whatever they were before: the empty list
\* leaves the owner with no row; getRolePermissions(r) then returns exactly the
\* members of S whose permission has status = 1.
C7_FullReplacementOfEnabled ==
  (Returned /\ call.error = <<>>) =>
     /\ OwnerRows(call.op, call.id) = Surviving(call.op, call.id, Range(call.ids))
     /\ call.clean => OwnerRows(call.op, call.id) = Range(call.ids)
     /\ call.ids = <<>> => \A row \in AssocRows(call.op) : row[1] # call.id
     /\ call.op = "assignPermissions" =>
          Range(getRolePermissions(call.id)) = Visible(call.op, call.id, Range(call.ids))
     /\ call.op = "assignRoles" =>
          Range(getUserRoles(call.id)) = Visible(call.op, call.id, Range(call.ids))

\* a successful assignPermissions has replaced a non-empty set by a different one
\* that holds a disabled permission
C7_Witness ==
  /\ Returned /\ call.error = <<>> /\ call.clean
  /\ call.op = "assignPermissions"
  /\ call.before # {} /\ ~(call.before \subseteq Range(call.ids))
  /\ \E p \in Range(call.ids) : permissions[p].status = 0
  /\ OwnerRows(call.op, call.id) = Range(call.ids)

\* C8: an assignment that fails after its delete step (the insert is rejected) leaves
\* the owner's association set as it was before the call.
C8_FailureLeavesPriorState ==
  (Returned /\ call.error = InsertFailed) =>
     OwnerRows(call.op, call.id) = Surviving(call.op, call.id, call.before)

\* C9: the service validates before it mutates: a call that ends in a not-found error
\* has deleted and inserted no row; with no write of another request in between, a
\* missing owner ends the call with the owner's not-found error, and an existing owner
\* with a list holding a missing id ends it with the error naming the first missing id.
C9_ValidatesBeforeMutating ==
  Returned =>
     /\ (call.error = OwnerNotFound \/ (call.error # <<>> /\ call.error[1] = "TargetNotFound"))
          => OwnerRows(call.op, call.id) = Surviving(call.op, call.id, call.before)
     /\ (call.clean /\ call.id \notin DOMAIN OwnerTable(call.op))
          => call.error = OwnerNotFound
     /\ (call.clean /\ call.id \in DOMAIN OwnerTable(call.op)
           /\ FirstMissing(call.op, call.ids) # 0)
          => call.error = TargetNotFound(FirstMissing(call.op, call.ids))

\* an owner with rows is given a list whose second id is missing: the call has named it
C9_Witness ==
  /\ Returned /\ call.clean
  /\ call.before # {}
  /\ Len(call.ids) = 2 /\ call.i = 2
  /\ call.error = TargetNotFound(call.ids[2])
  /\ OwnerRows(call.op, call.id) = call.before

\* ---------------------------------------------------------------- specification: the permission tree
\* PermissionService over the permissions table; each request as a whole.
MaxPermissionRows == 3

\* the codes and parent ids a request body may carry
TreeCodes == {PermCodeOf(id) : id \in 1..MaxPermissionRows}
ParentIds == 0..MaxPermissionRows

\* PermissionRepository.findByCode
findByCode(code) == {p \in DOMAIN permissions : permissions[p].code = code}

\* the count over the enabled children only (mutation of getChildrenCount)
getChildrenCount_enabledOnly(parentId) ==
  Cardinality({p \in DOMAIN permissions :
                 permissions[p].parent_id = parentId /\ permissions[p].status = 1})

\* PermissionRepository.getChildrenCount
getChildrenCount(parentId) ==
  Cardinality({p \in DOMAIN permissions : permissions[p].parent_id = parentId})

\* result.insertId of AUTO_INCREMENT.  No row refers to a deleted permission (a parent
\* with children is not deleted, role_permissions cascades), so the id above every
\* stored id stands for the next unused id
insertId == IF DOMAIN permissions = {} THEN 1
            ELSE 1 + CHOOSE m \in DOMAIN permissions : \A p \in DOMAIN permissions : p <= m

\* PermissionService.createPermission({ code, parent_id })
createPermission(code, parent_id) ==
  /\ insertId <= MaxPermissionRows
  /\ IF findByCode(code) # {}
     THEN /\ ctx' = ResponseError("createPermission", 0, {}, 500)
          /\ UNCHANGED permissions
     ELSE IF parent_id > 0 /\ findById(permissions, parent_id) = Null
     THEN /\ ctx' = ResponseError("createPermission", 0, {}, 500)
          /\ UNCHANGED permissions
     ELSE /\ permissions' =
               [p \in DOMAIN permissions \cup {insertId} |->
                  IF p \in DOMAIN permissions THEN permissions[p]
                  ELSE [code |-> code, parent_id |-> parent_id, sort_order |-> 0, status |-> 1]]
          /\ ctx' = ResponseSuccess("createPermission", <<insertId>>)
  /\ UNCHANGED <<users, roles, user_roles, role_permissions, tokens, now, call, redis>>

\* updatePermission without the test of parent_id against the permission's own id
updatePermission_noSelfTest(id, parent_id) ==
  /\ IF findById(permissions, id) = Null
     THEN /\ ctx' = ResponseError("updatePermission", 0, {}, 500)
          /\ UNCHANGED permissions
     ELSE IF parent_id > 0 /\ findById(permissions, parent_id) = Null
     THEN /\ ctx' = ResponseError("updatePermission", 0, {}, 500)
          /\ UNCHANGED permissions
     ELSE /\ permissions' = [permissions EXCEPT ![id].parent_id = parent_id]
          /\ ctx' = ResponseSuccess("updatePermission", <<id>>)
  /\ UNCHANGED <<users, roles, user_roles, role_permissions, tokens, now, call, redis>>

\* PermissionService.updatePermission(id, { parent_id })
updatePermission(id, parent_id) ==
  /\ IF findById(permissions, id) = Null
     THEN /\ ctx' = ResponseError("updatePermission", 0, {}, 500)
          /\ UNCHANGED permissions
     ELSE IF parent_id > 0 /\ parent_id = id
     THEN /\ ctx' = ResponseError("updatePermission", 0, {}, 500)
          /\ UNCHANGED permissions
     ELSE IF parent_id > 0 /\ findById(permissions, parent_id) = Null
     THEN /\ ctx' = ResponseError("updatePermission", 0, {}, 500)
          /\ UNCHANGED permissions
     ELSE /\ permissions' = [permissions EXCEPT ![id].parent_id = parent_id]
          /\ ctx' = ResponseSuccess("updatePermission", <<id>>)
  /\ UNCHANGED <<users, roles, user_roles, role_permissions, tokens, now, call, redis>>

\* PermissionService.deletePermission(id), the request as a whole, refusals answered
deletePermissionRequest(id) ==
  /\ IF findById(permissions, id) = Null \/ getChildrenCount(id) > 0
     THEN /\ ctx' = ResponseError("deletePermission", 0, {}, 500)
          /\ UNCHANGED <<permissions, role_permissions>>
     ELSE /\ permissions' = [p \in DOMAIN permissions \ {id} |-> permissions[p]]
          /\ role_permissions' = {row \in role_permissions : row[2] # id}
          /\ ctx' = ResponseSuccess("deletePermission", <<id>>)
  /\ UNCHANGED <<users, roles, user_roles, tokens, now, call, redis>>

NextTree ==
  \/ \E code \in TreeCodes, parent_id \in ParentIds : createPermission(code, parent_id)
  \/ \E id \in 1..MaxPermissionRows, parent_id \in ParentIds : updatePermission(id, parent_id)
  \/ \E id \in 1..MaxPermissionRows : deletePermissionRequest(id)

SpecTree == InitGate /\ [][NextTree]_vars

\* the permission reached from p by following parent_id k times (0: off the table)
RECURSIVE Climb(_, _)
Climb(p, k) ==
  IF k = 0 THEN p
  ELSE IF p \notin DOMAIN permissions THEN 0
  ELSE Climb(permissions[p].parent_id, k - 1)

\* C10: in every reachable state, following parent_id from any permission never
\* returns to a permission already visited (no cycle of any length).
C10_ParentRelationIsForest ==
  \A p \in DOMAIN permissions :
     \A k \in 1..Cardinality(DOMAIN permissions) : Climb(p, k) # p

\* ---------------------------------------------------------------- specification: deleting a role
\* RoleRepository.getUserCount: SELECT COUNT(*) FROM user_roles WHERE role_id = ?
\* (Sequelize: role.users.length)
getUserCount(roleId) == Cardinality({row \in user_roles : row[2] = roleId})

\* deleteRole without the user-count test (mutation of deleteRoleRequest)
deleteRoleRequest_noCount(id) ==
  /\ IF findById(roles, id) = Null
     THEN /\ ctx' = ResponseError("deleteRole", 0, {}, 500)
          /\ UNCHANGED <<roles, user_roles, role_permissions>>
     ELSE /\ roles' = [r \in DOMAIN roles \ {id} |-> roles[r]]
          /\ user_roles' = {row \in user_roles : row[2] # id}
          /\ role_permissions' = {row \in role_permissions : row[1] # id}
          /\ ctx' = ResponseSuccess("deleteRole", <<id>>)
  /\ UNCHANGED <<users, permissions, tokens, now, call, redis>>

\* RoleController.deleteRole -> RoleService.deleteRole(id), the request as a whole:
\* refused for a missing role and for a role some user holds; else the role row is
\* deleted and its association rows go with it (ON DELETE CASCADE)
deleteRoleRequest(id) ==
  /\ IF findById(roles, id) = Null \/ getUserCount(id) > 0
     THEN /\ ctx' = ResponseError("deleteRole", 0, {}, 500)
          /\ UNCHANGED <<roles, user_roles, role_permissions>>
     ELSE /\ roles' = [r \in DOMAIN roles \ {id} |-> roles[r]]
          /\ user_roles' = {row \in user_roles : row[2] # id}
          /\ role_permissions' = {row \in role_permissions : row[1] # id}
          /\ ctx' = ResponseSuccess("deleteRole", <<id>>)
  /\ UNCHANGED <<users, permissions, tokens, now, call, redis>>

\* the permission lists of the assignPermissions requests: none, or every permission
GrantLists == {{}, PermIds}

NextRoleDelete ==
  \/ \E id \in UserIds, roleIds \in SUBSET RoleIds : assignRoles(id, roleIds)
  \/ \E id \in RoleIds, permissionIds \in GrantLists : assignPermissions(id, permissionIds)
  \/ \E id \in RoleIds : deleteRoleRequest(id)

SpecRoleDelete == InitGate /\ [][NextRoleDelete]_vars

\* C11: deleteRole(r) fails and leaves the role and every association unchanged while
\* at least one user is assigned r; for an existing role no user is assigned to (every
\* holder's role set replaced by one without r) it succeeds and the role is gone.
C11_DeleteRoleGuard ==
  [][\A id \in RoleIds :
       deleteRoleRequest(id) =>
         IF \E u \in DOMAIN users : <<u, id>> \in user_roles
         THEN ctx'.status # 200 /\ UNCHANGED dbVars
         ELSE findById(roles, id) # Null =>
                /\ ctx'.status = 200
                /\ id \notin DOMAIN roles'
                /\ \A row \in role_permissions' : row[1] # id]_vars

\* a delete of a role that a user holds and that has permissions has been refused
C11_Witness ==
  /\ ctx.handler = "deleteRole" /\ ctx.status = 500
  /\ \E r \in DOMAIN roles :
       /\ \E u \in DOMAIN users : <<u, r>> \in user_roles
       /\ \E p \in DOMAIN permissions : <<r, p>> \in role_permissions

\* ---------------------------------------------------------------- specification: deleting a permission
\* the permission tree requests together with the status updates
NextPermissionDelete ==
  \/ NextTree
  \/ \E id \in 1..MaxPermissionRows, status \in {0, 1} : updatePermissionStatus(id, status)

SpecPermissionDelete == InitGate /\ [][NextPermissionDelete]_vars

\* C12: deletePermission(p) fails and leaves p in the store while any permission,
\* enabled or disabled, has parent_id = p; for an existing permission without children
\* (each deleted or re-parented) it succeeds.
C12_DeletePermissionGuard ==
  [][\A id \in 1..MaxPermissionRows :
       deletePermissionRequest(id) =>
         IF \E c \in DOMAIN permissions : permissions[c].parent_id = id
         THEN ctx'.status # 200 /\ UNCHANGED dbVars
         ELSE findById(permissions, id) # Null =>
                ctx'.status = 200 /\ id \notin DOMAIN permissions']_vars

\* every id names a permission and every child is disabled: the refused delete was
\* that of a parent whose children are all disabled
C12_Witness ==
  /\ ctx.handler = "deletePermission" /\ ctx.status = 500
  /\ DOMAIN permissions = 1..MaxPermissionRows
  /\ \E c \in DOMAIN permissions : permissions[c].parent_id > 0
  /\ \A c \in DOMAIN permissions : permissions[c].parent_id > 0 => permissions[c].status = 0

\* ---------------------------------------------------------------- specification: the schema's constraints
\* The statements the repositories send, one statement (or one transaction) a step.
\* Here user_roles and role_permissions are bags of (owner, target) pairs: the rows
\* have their own AUTO_INCREMENT id, so nothing but the unique key keeps a pair single.

\* the rows of a multi-row INSERT, as a bag
BagOfSeq(pairs) ==
  [p \in Range(pairs) |-> Cardinality({k \in DOMAIN pairs : pairs[k] = p})]

\* no unique key on the association table (mutation of UniqueKeyHolds)
UniqueKeyHolds_none(rows, pairs) == TRUE

\* UNIQUE KEY (user_id, role_id): no pair of the statement is stored, none is repeated
UniqueKeyHolds(rows, pairs) ==
  /\ NoDuplicates(pairs)
  /\ \A k \in DOMAIN pairs : ~BagIn(pairs[k], rows)

\* FOREIGN KEY (user_id) REFERENCES users, (role_id) REFERENCES roles
ForeignKeysHold(owners, targets, pairs) ==
  \A k \in DOMAIN pairs : pairs[k][1] \in DOMAIN owners /\ pairs[k][2] \in DOMAIN targets

\* DELETE ... WHERE / ON DELETE CASCADE: the rows outside the deleted set
RowsWithout(rows, deleted) == [p \in DOMAIN rows \ deleted |-> rows[p]]

\* the id given to a new row of a table with ids up to max (0: the table is full)
NextRowId(table, max) ==
  LET free == {id \in 1..max : \A used \in DOMAIN table : used < id}
  IN  IF free = {} THEN 0 ELSE CHOOSE id \in free : \A other \in free : id <= other

WithRow(table, id, row) ==
  [x \in DOMAIN table \cup {id} |-> IF x = id THEN row ELSE table[x]]

\* UserRepository.create: INSERT INTO users
UserRepository_create ==
  /\ NextRowId(users, MaxUsers) # 0
  /\ users' = WithRow(users, NextRowId(users, MaxUsers), [status |-> 1])
  /\ ctx' = ResponseSuccess("createUser", <<>>)
  /\ UNCHANGED <<roles, permissions, user_roles, role_permissions, tokens, now, call, redis>>

\* UserRepository.delete: DELETE FROM users WHERE id = ?
UserRepository_delete(id) ==
  /\ id \in DOMAIN users
  /\ users' = [u \in DOMAIN users \ {id} |-> users[u]]
  /\ user_roles' = RowsWithout(user_roles, {p \in DOMAIN user_roles : p[1] = id})
  /\ ctx' = ResponseSuccess("deleteUser", <<>>)
  /\ UNCHANGED <<roles, permissions, role_permissions, tokens, now, call, redis>>

\* RoleRepository.create: INSERT INTO roles
RoleRepository_create ==
  /\ NextRowId(roles, MaxRoles) # 0
  /\ LET id == NextRowId(roles, MaxRoles)
     IN  roles' = WithRow(roles, id, [code |-> RoleCodeOf(id), status |-> 1])
  /\ ctx' = ResponseSuccess("createRole", <<>>)
  /\ UNCHANGED <<users, permissions, user_roles, role_permissions, tokens, now, call, redis>>

\* RoleRepository.delete: DELETE FROM roles WHERE id = ?
RoleRepository_delete(id) ==
  /\ id \in DOMAIN roles
  /\ roles' = [r \in DOMAIN roles \ {id} |-> roles[r]]
  /\ user_roles' = RowsWithout(user_roles, {p \in DOMAIN user_roles : p[2] = id})
  /\ role_permissions' =
       RowsWithout(role_permissions, {p \in DOMAIN role_permissions : p[1] = id})
  /\ ctx' = ResponseSuccess("deleteRole", <<>>)
  /\ UNCHANGED <<users, permissions, tokens, now, call, redis>>

\* PermissionRepository.create: INSERT INTO permissions
PermissionRepository_create ==
  /\ NextRowId(permissions, MaxPerms) # 0
  /\ LET id == NextRowId(permissions, MaxPerms)
     IN  permissions' =
           WithRow(permissions, id,
                   [code |-> PermCodeOf(id), parent_id |-> 0, sort_order |-> 0, status |-> 1])
  /\ ctx' = ResponseSuccess("createPermission", <<>>)
  /\ UNCHANGED <<users, roles, user_roles, role_permissions, tokens, now, call, redis>>

\* PermissionRepository.delete: DELETE FROM permissions WHERE id = ?
PermissionRepository_delete(id) ==
  /\ id \in DOMAIN permissions
  /\ permissions' = [p \in DOMAIN permissions \ {id} |-> permissions[p]]
  /\ role_permissions' =
       RowsWithout(role_permissions, {p \in DOMAIN role_permissions : p[2] = id})
  /\ ctx' = ResponseSuccess("deletePermission", <<>>)
  /\ UNCHANGED <<users, roles, user_roles, tokens, now, call, redis>>

\* roleIds.map(roleId => [userId, roleId])
PairsOf(id, ids) == [k \in DOMAIN ids |-> <<id, ids[k]>>]

\* the INSERT passes the table's unique key and both foreign keys
StatementAccepted(op, rows, pairs) ==
  /\ UniqueKeyHolds(rows, pairs)
  /\ ForeignKeysHold(OwnerTable(op), TargetTable(op), pairs)

\* SQL repository assignRoles / assignPermissions, the transaction as a whole:
\* DELETE the owner's rows, INSERT the list, commit; a rejected INSERT rolls back
Repository_assign(op, id, ids) ==
  /\ LET kept == RowsWithout(AssocRows(op), {p \in DOMAIN AssocRows(op) : p[1] = id})
         pairs == PairsOf(id, ids)
     IN IF Len(ids) = 0 \/ StatementAccepted(op, kept, pairs)
        THEN /\ WriteRows(op, kept (+) BagOfSeq(pairs))
             /\ ctx' = ResponseSuccess(op, <<>>)
        ELSE /\ UNCHANGED <<user_roles, role_permissions>>
             /\ ctx' = ResponseError(op, 0, {}, 500)
  /\ UNCHANGED <<users, roles, permissions, tokens, now, call, redis>>

\* Sequelize setRoles / setPermissions: through.destroy of the rows the call found
\* obsolete in the rows it read earlier
through_destroy(op, id, ids) ==
  /\ WriteRows(op, RowsWithout(AssocRows(op), {<<id, t>> : t \in ids}))
  /\ ctx' = NoCtx
  /\ UNCHANGED <<users, roles, permissions, tokens, now, call, redis>>

\* Sequelize setRoles / setPermissions: through.bulkCreate of the targets the call
\* found unassociated in the rows it read earlier
through_bulkCreate(op, id, ids) ==
  /\ Len(ids) > 0
  /\ IF StatementAccepted(op, AssocRows(op), PairsOf(id, ids))
     THEN /\ WriteRows(op, AssocRows(op) (+) BagOfSeq(PairsOf(id, ids)))
          /\ ctx' = ResponseSuccess(op, <<>>)
     ELSE /\ UNCHANGED <<user_roles, role_permissions>>
          /\ ctx' = ResponseError(op, 0, {}, 500)
  /\ UNCHANGED <<users, roles, permissions, tokens, now, call, redis>>

InitSchema ==
  /\ users = [id \in {1} |-> [status |-> 1]]
  /\ roles = SeedRoles
  /\ permissions = SeedPermissions
  /\ user_roles = EmptyBag
  /\ role_permissions = EmptyBag
  /\ ctx = NoCtx
  /\ tokens = {}
  /\ now = 0
  /\ call = NoCall
  /\ redis = NoRedis

NextSchema ==
  \/ UserRepository_create
  \/ \E id \in UserIds : UserRepository_delete(id)
  \/ RoleRepository_create
  \/ \E id \in RoleIds : RoleRepository_delete(id)
  \/ PermissionRepository_create
  \/ \E id \in PermIds : PermissionRepository_delete(id)
  \/ \E op \in AssignOps : \E id \in OwnerIds(op), ids \in IdLists(op) :
       Repository_assign(op, id, ids)
  \/ \E op \in AssignOps : \E id \in OwnerIds(op), ids \in SUBSET TargetIds(op) :
       through_destroy(op, id, ids)
  \/ \E op \in AssignOps : \E id \in OwnerIds(op), ids \in IdLists(op) :
       through_bulkCreate(op, id, ids)

SpecSchema == InitSchema /\ [][NextSchema]_vars

\* C13: every user_roles row references an existing user and an existing role, every
\* role_permissions row an existing role and an existing permission, and no
\* (user, role) or (role, permission) pair is stored twice.
C13_NoDanglingNoDuplicate ==
  /\ \A p \in BagToSet(user_roles) :
       p[1] \in DOMAIN users /\ p[2] \in DOMAIN roles /\ CopiesIn(p, user_roles) = 1
  /\ \A p \in BagToSet(role_permissions) :
       p[1] \in DOMAIN roles /\ p[2] \in DOMAIN permissions
         /\ CopiesIn(p, role_permissions) = 1

\* a role row has just been deleted, with its rows, while rows of the surviving
\* roles stay in both association tables
C13_Witness ==
  /\ ctx.handler = "deleteRole" /\ ctx.status = 200
  /\ DOMAIN roles # RoleIds
  /\ BagToSet(user_roles) # {}
  /\ BagToSet(role_permissions) # {}

\* ---------------------------------------------------------------------------
\* User names and emails: UserService.createUser / updateUser and
\* AuthService.register / verifyEmail, as concurrent requests
\* ---------------------------------------------------------------------------

MaxCalls == 2
MaxUserRows == 3

Usernames == {"admin", "alice"}
Emails == {"admin@example.com", "alice@example.com"}
Codes == {"123456", "654321"}

CallIds == 1..MaxCalls

\* a request slot that is not handling anything
NoRequest == [pc |-> "idle", id |-> 0, username |-> "", email |-> ""]

findByUsername(username) == {id \in DOMAIN users : users[id].username = username}

findByEmail(email) == {id \in DOMAIN users : users[id].email = email}

\* the users table's UNIQUE KEY unique_username and unique_email, with no key at all
UserKeysHold_none(id, username, email) == TRUE

\* the users table's UNIQUE KEY unique_username and unique_email: the statement that writes
\* (username, email) into row id is accepted when no other row holds either value
UserKeysHold(id, username, email) ==
  /\ findByUsername(username) \subseteq {id}
  /\ findByEmail(email) \subseteq {id}

\* users.status defaults to 1
UserRow(username, email) == [username |-> username, email |-> email, status |-> 1]

\* userRepository.createUser: INSERT INTO users, refused by a unique key
insertUser(handler, username, email) ==
  IF UserKeysHold(0, username, email) /\ NextRowId(users, MaxUserRows) # 0
  THEN /\ users' = WithRow(users, NextRowId(users, MaxUserRows), UserRow(username, email))
       /\ ctx' = ResponseSuccess(handler, <<NextRowId(users, MaxUserRows)>>)
  ELSE /\ UNCHANGED users
       /\ ctx' = ResponseError(handler, 0, {}, 500)

\* UserService.createUser up to the await of createUser: findByUsername, findByEmail
createUser_check(c, username, email) ==
  /\ call[c].pc = "idle"
  /\ IF findByUsername(username) # {} \/ findByEmail(email) # {}
     THEN /\ ctx' = ResponseError("createUser", 0, {}, 500)
          /\ UNCHANGED call
     ELSE /\ ctx' = NoCtx
          /\ call' = [call EXCEPT ![c] = [pc |-> "createUser", id |-> 0,
                                          username |-> username, email |-> email]]
  /\ UNCHANGED <<users, roles, permissions, user_roles, role_permissions, tokens, now, redis>>

\* UserService.createUser: userRepository.createUser
createUser_insert(c) ==
  /\ call[c].pc = "createUser"
  /\ insertUser("createUser", call[c].username, call[c].email)
  /\ call' = [call EXCEPT ![c] = NoRequest]
  /\ UNCHANGED <<roles, permissions, user_roles, role_permissions, tokens, now, redis>>

\* UserService.updateUser with updateData.email: findUserById, then findByEmail when
\* the email differs from the stored one
updateUserEmail_check(c, id, email) ==
  /\ call[c].pc = "idle"
  /\ IF \/ id \notin DOMAIN users
        \/ (email # users[id].email /\ findByEmail(email) # {})
     THEN /\ ctx' = ResponseError("updateUser", 0, {}, 500)
          /\ UNCHANGED call
     ELSE /\ ctx' = NoCtx
          /\ call' = [call EXCEPT ![c] = [pc |-> "updateUser", id |-> id,
                                          username |-> users[id].username,
                                          email |-> email]]
  /\ UNCHANGED <<users, roles, permissions, user_roles, role_permissions, tokens, now, redis>>

\* UserService.updateUser: userRepository.updateById, refused by the unique key
updateUserEmail_write(c) ==
  /\ call[c].pc = "updateUser"
  /\ IF call[c].id \in DOMAIN users
          /\ UserKeysHold(call[c].id, users[call[c].id].username, call[c].email)
     THEN /\ users' = [users EXCEPT ![call[c].id].email = call[c].email]
          /\ ctx' = ResponseSuccess("updateUser", <<call[c].id>>)
     ELSE /\ UNCHANGED users
          /\ ctx' = ResponseError("updateUser", 0, {}, 500)
  /\ call' = [call EXCEPT ![c] = NoRequest]
  /\ UNCHANGED <<roles, permissions, user_roles, role_permissions, tokens, now, redis>>

TempUserKey(email) == <<"temp_user", email>>

\* redis.setex(key, ttl, value)
setex(store, key, value) ==
  [k \in DOMAIN store \cup {key} |-> IF k = key THEN value ELSE store[k]]

\* redis.del(key)
del(store, key) == [k \in DOMAIN store \ {key} |-> store[k]]

\* AuthService.register up to the await of setex: findByUsername, findByEmail
register_check(c, username, email) ==
  /\ call[c].pc = "idle"
  /\ IF findByUsername(username) # {} \/ findByEmail(email) # {}
     THEN /\ ctx' = ResponseError("register", 0, {}, 500)
          /\ UNCHANGED call
     ELSE /\ ctx' = NoCtx
          /\ call' = [call EXCEPT ![c] = [pc |-> "register", id |-> 0,
                                          username |-> username, email |-> email]]
  /\ UNCHANGED <<users, roles, permissions, user_roles, role_permissions, tokens, now, redis>>

\* AuthService.register: generateVerificationCode and redis.setex of temp_user:<email>
register_setex(c, code) ==
  /\ call[c].pc = "register"
  /\ redis' = setex(redis, TempUserKey(call[c].email),
                    [username |-> call[c].username, email |-> call[c].email,
                     verificationCode |-> code])
  /\ ctx' = ResponseSuccess("register", <<>>)
  /\ call' = [call EXCEPT ![c] = NoRequest]
  /\ UNCHANGED <<users, roles, permissions, user_roles, role_permissions, tokens, now>>

\* the temp_user key reaches its time to live
expire(key) ==
  /\ key \in DOMAIN redis
  /\ redis' = del(redis, key)
  /\ ctx' = NoCtx
  /\ UNCHANGED <<users, roles, permissions, user_roles, role_permissions, tokens, now, call>>

\* verifyEmail without the test of the code
verifyEmail_get_anyCode(c, email, code) ==
  /\ call[c].pc = "idle"
  /\ IF TempUserKey(email) \notin DOMAIN redis
     THEN /\ ctx' = ResponseError("verifyEmail", 0, {}, 500)
          /\ UNCHANGED call
     ELSE /\ ctx' = NoCtx
          /\ call' = [call EXCEPT ![c] = [pc |-> "verifyEmail", id |-> 0,
                                          username |-> redis[TempUserKey(email)].username,
                                          email |-> redis[TempUserKey(email)].email]]
  /\ UNCHANGED <<users, roles, permissions, user_roles, role_permissions, tokens, now, redis>>

\* AuthService.verifyEmail up to the await of createUser: redis.get and the code test
verifyEmail_get(c, email, code) ==
  /\ call[c].pc = "idle"
  /\ IF \/ TempUserKey(email) \notin DOMAIN redis
        \/ redis[TempUserKey(email)].verificationCode # code
     THEN /\ ctx' = ResponseError("verifyEmail", 0, {}, 500)
          /\ UNCHANGED call
     ELSE /\ ctx' = NoCtx
          /\ call' = [call EXCEPT ![c] = [pc |-> "verifyEmail", id |-> 0,
                                          username |-> redis[TempUserKey(email)].username,
                                          email |-> redis[TempUserKey(email)].email]]
  /\ UNCHANGED <<users, roles, permissions, user_roles, role_permissions, tokens, now, redis>>

\* AuthService.verifyEmail: userRepository.createUser, then redis.del of the temp data
verifyEmail_insert(c) ==
  /\ call[c].pc = "verifyEmail"
  /\ insertUser("verifyEmail", call[c].username, call[c].email)
  /\ redis' = IF UserKeysHold(0, call[c].username, call[c].email)
                   /\ NextRowId(users, MaxUserRows) # 0
              THEN del(redis, TempUserKey(call[c].email))
              ELSE redis
  /\ call' = [call EXCEPT ![c] = NoRequest]
  /\ UNCHANGED <<roles, permissions, user_roles, role_permissions, tokens, now>>

InitUsers ==
  /\ users = [id \in {1} |-> UserRow("admin", "admin@example.com")]
  /\ roles = SeedRoles
  /\ permissions = SeedPermissions
  /\ user_roles = {<<1, 1>>}
  /\ role_permissions = {}
  /\ ctx = NoCtx
  /\ tokens = {}
  /\ now = 0
  /\ call = [c \in CallIds |-> NoRequest]
  /\ redis = NoRedis

NextUsers ==
  \/ \E c \in CallIds, username \in Usernames, email \in Emails :
       createUser_check(c, username, email)
  \/ \E c \in CallIds : createUser_insert(c)
  \/ \E c \in CallIds, id \in 1..MaxUserRows, email \in Emails :
       updateUserEmail_check(c, id, email)
  \/ \E c \in CallIds : updateUserEmail_write(c)
  \/ \E c \in CallIds, username \in Usernames, email \in Emails :
       register_check(c, username, email)
  \/ \E c \in CallIds, code \in Codes : register_setex(c, code)
  \/ \E email \in Emails : expire(TempUserKey(email))
  \/ \E c \in CallIds, email \in Emails, code \in Codes : verifyEmail_get(c, email, code)
  \/ \E c \in CallIds : verifyEmail_insert(c)

SpecUsers == InitUsers /\ [][NextUsers]_vars

\* the value a call is about to write is held by another user row
LosesToExisting(id, username, email) ==
  \/ findByUsername(username) \ {id} # {}
  \/ findByEmail(email) \ {id} # {}

\* the call fails and no user is created or altered
FailsWithoutWriting == ctx'.status # 200 /\ UNCHANGED users

\* C14: no two user rows ever share a username or an email, whatever the interleaving
\* of createUser, updateUser (email) and register / verifyEmail, and a call whose
\* username or email is held by another user fails and leaves the users unchanged.
C14_UsernamesAndEmailsUnique ==
  /\ [](\A a, b \in DOMAIN users :
          a # b => users[a].username # users[b].username /\ users[a].email # users[b].email)
  /\ [][/\ \A c \in CallIds, username \in Usernames, email \in Emails :
             (createUser_check(c, username, email) \/ register_check(c, username, email))
               /\ LosesToExisting(0, username, email) => FailsWithoutWriting
        /\ \A c \in CallIds :
             (createUser_insert(c) \/ verifyEmail_insert(c))
               /\ LosesToExisting(0, call[c].username, call[c].email) => FailsWithoutWriting
        /\ \A c \in CallIds, id \in 1..MaxUserRows, email \in Emails :
             updateUserEmail_check(c, id, email) /\ id \in DOMAIN users
               /\ email # users[id].email /\ LosesToExisting(id, "", email)
               => FailsWithoutWriting
        /\ \A c \in CallIds :
             updateUserEmail_write(c) /\ LosesToExisting(call[c].id, "", call[c].email)
               => FailsWithoutWriting]_vars

\* two calls passed the existence check with the same new username before either wrote;
\* one has created the user and the other is about to write
C14_Witness ==
  /\ \E c \in CallIds : call[c].pc \in {"createUser", "verifyEmail"}
       /\ call[c].username = "alice" /\ findByUsername("alice") # {}
  /\ ctx.status = 200

\* ---------------------------------------------------------------------------
\* middleware/rateLimiter: fixedWindowRateLimit, tokenBucketRateLimit and the
\* middleware createRateLimiter returns; call is the list of the requests the
\* middleware has handled, redis the counter store, now the clock in ticks
\* ---------------------------------------------------------------------------

MaxRequests == 4
MaxClock == 5
TicksPerSecond == 2

\* options.max and options.windowMs / 1000 of a fixed-window limiter
FixedLimit == 2
FixedWindow == 1

\* options.max and options.refillRate of a token-bucket limiter
BucketCapacity == 2
BucketRefillRate == 1

RATE_LIMIT_TYPES == {"fixed_window", "token_bucket"}

\* keyGenerator(ctx): ctx.ip
LimitKeys == {"rate_limit:10.0.0.1", "rate_limit:10.0.0.2"}

\* Math.floor(Date.now() / 1000)
Seconds(t) == t \div TicksPerSecond

Min(a, b) == IF a < b THEN a ELSE b

Max(a, b) == IF a > b THEN a ELSE b

\* the keys whose time to live has not run out at time t
Unexpired(store, t) ==
  [k \in {x \in DOMAIN store : store[x].expireAt > t} |-> store[k]]

\* the comparison of fixedWindowRateLimit, with the limit itself refused
FixedAllowed_strict(count, limit) == count < limit

\* allowed: count <= limit
FixedAllowed(count, limit) == count <= limit

\* fixedWindowRateLimit(key, limit, window): INCR and EXPIRE of the window key,
\* then the result object; store is returned as written
fixedWindowRateLimit(store, key, limit, window, t) ==
  LET windowKey == <<key, Seconds(t) \div window>>
      count == IF windowKey \in DOMAIN store THEN store[windowKey].count + 1 ELSE 1
  IN [store |-> setex(store, windowKey,
                      [count |-> count, expireAt |-> t + window * TicksPerSecond]),
      allowed |-> FixedAllowed(count, limit),
      count |-> count,
      remaining |-> Max(0, limit - count),
      resetTime |-> ((Seconds(t) + window - 1) \div window) * window]

\* parseFloat(value) || fallback: a missing field (NaN) and a stored 0 both give
\* the fallback
OrDefault(store, key, field, fallback) ==
  IF key \in DOMAIN store /\ store[key][field] # 0 THEN store[key][field] ELSE fallback

\* tokenBucketRateLimit(key, capacity, refillRate): tokens are counted in units of
\* 1 / TicksPerSecond, so that a tick adds refillRate units. The key's time to live
\* (capacity / refillRate + 60 seconds) ends after the bucket has refilled, and a
\* missing key reads as a full bucket: the expiry changes no result and is left out.
tokenBucketRateLimit(store, key, capacity, refillRate, t) ==
  LET stored == OrDefault(store, <<key>>, "tokens", capacity * TicksPerSecond)
      lastRefill == OrDefault(store, <<key>>, "lastRefill", t)
      refilled == Min(capacity * TicksPerSecond, stored + (t - lastRefill) * refillRate)
      allowed == refilled >= TicksPerSecond
      left == IF allowed THEN refilled - TicksPerSecond ELSE refilled
  IN [store |-> setex(store, <<key>>,
                      [tokens |-> left, lastRefill |-> t, expireAt |-> MaxClock + 1]),
      allowed |-> allowed,
      tokens |-> left \div TicksPerSecond,
      capacity |-> capacity]

\* the places where the store can throw during the computation
FailurePoints(type) ==
  IF type = "fixed_window" THEN {"none", "exec"}
  ELSE {"none", "hmget", "hmset", "expire"}

rateLimit(type, key, t) ==
  IF type = "fixed_window"
  THEN fixedWindowRateLimit(Unexpired(redis, t), key, FixedLimit, FixedWindow, t)
  ELSE tokenBucketRateLimit(Unexpired(redis, t), key, BucketCapacity, BucketRefillRate, t)

\* the response of the middleware
LimiterResponse(status, nextCalled) ==
  [NoCtx EXCEPT !.handler = "rateLimiter", !.status = status, !.nextCalled = nextCalled]

\* the entry of the request list
Handled(type, key, failed, denied, invoked) ==
  [type |-> type, key |-> key, at |-> now, failed |-> failed, denied |-> denied,
   invoked |-> invoked]

\* the catch block of the middleware answering 500 instead of calling next()
catchNext_failClosed(type, key, nextThrows) ==
  /\ ctx' = LimiterResponse(500, FALSE)
  /\ call' = Append(call, Handled(type, key, TRUE, FALSE, 0))

\* the catch block of the middleware after the store threw: await next()
catchNext(type, key, nextThrows) ==
  /\ ctx' = LimiterResponse(IF nextThrows THEN 500 ELSE 200, TRUE)
  /\ call' = Append(call, Handled(type, key, TRUE, FALSE, 1))

\* the middleware createRateLimiter(options) returns, for one request. With the
\* default skipSuccessfulRequests / skipFailedRequests (no configuration sets them)
\* nothing follows next(). A downstream throw reaches the catch block, whose second
\* next() is rejected by the composed chain: the handler has run once.
rateLimiter(type, key, fails, nextThrows) ==
  /\ Len(call) < MaxRequests
  /\ IF fails # "none"
     THEN /\ redis' = IF fails = "expire" THEN rateLimit(type, key, now).store
                      ELSE Unexpired(redis, now)
          /\ catchNext(type, key, nextThrows)
     ELSE /\ redis' = rateLimit(type, key, now).store
          /\ IF rateLimit(type, key, now).allowed
             THEN /\ ctx' = LimiterResponse(IF nextThrows THEN 500 ELSE 200, TRUE)
                  /\ call' = Append(call, Handled(type, key, FALSE, FALSE, 1))
             ELSE /\ ctx' = LimiterResponse(429, FALSE)
                  /\ call' = Append(call, Handled(type, key, FALSE, TRUE, 0))
  /\ UNCHANGED <<users, roles, permissions, user_roles, role_permissions, tokens, now>>

\* Date.now() moves on, and the keys whose time to live has run out are gone
ClockTick ==
  /\ now < MaxClock
  /\ now' = now + 1
  /\ redis' = Unexpired(redis, now + 1)
  /\ ctx' = NoCtx
  /\ UNCHANGED <<users, roles, permissions, user_roles, role_permissions, tokens, call>>

InitLimiter ==
  /\ users = SeedUsers
  /\ roles = SeedRoles
  /\ permissions = SeedPermissions
  /\ user_roles = {}
  /\ role_permissions = {}
  /\ ctx = NoCtx
  /\ tokens = {}
  /\ now = 1
  /\ call = <<>>
  /\ redis = NoRedis

NextFixedWindow ==
  \/ ClockTick
  \/ \E key \in LimitKeys, fails \in FailurePoints("fixed_window"), nextThrows \in BOOLEAN :
       rateLimiter("fixed_window", key, fails, nextThrows)

SpecFixedWindow == InitLimiter /\ [][NextFixedWindow]_vars

NextTokenBucket ==
  \/ ClockTick
  \/ \E key \in LimitKeys, fails \in FailurePoints("token_bucket"), nextThrows \in BOOLEAN :
       rateLimiter("token_bucket", key, fails, nextThrows)

SpecTokenBucket == InitLimiter /\ [][NextTokenBucket]_vars

NextLimiter ==
  \/ ClockTick
  \/ \E type \in RATE_LIMIT_TYPES, key \in LimitKeys, nextThrows \in BOOLEAN :
       \E fails \in FailurePoints(type) : rateLimiter(type, key, fails, nextThrows)

SpecLimiter == InitLimiter /\ [][NextLimiter]_vars

\* the requests of the list up to i on the key of request i and in its window
InWindowUpTo(i) ==
  {j \in 1..i : /\ call[j].key = call[i].key
                /\ Seconds(call[j].at) \div FixedWindow = Seconds(call[i].at) \div FixedWindow}

\* C16: with the store working, the n-th request on a key inside one window of the
\* fixed-window limiter is allowed if and only if n <= limit; in particular the first
\* request of the next window is allowed again.
C16_FixedWindowAllowsFirstM ==
  \A i \in DOMAIN call :
    (\A j \in InWindowUpTo(i) : ~call[j].failed)
      => (~call[i].denied <=> Cardinality(InWindowUpTo(i)) <= FixedLimit)

\* a request over the limit was denied and the first request of the next window on
\* the same key was allowed
C16_Witness ==
  \E i, j \in DOMAIN call :
    /\ i < j /\ call[i].key = call[j].key
    /\ call[i].denied /\ ~call[j].denied /\ ~call[j].failed
    /\ Seconds(call[j].at) \div FixedWindow = Seconds(call[i].at) \div FixedWindow + 1
    /\ \A k \in InWindowUpTo(i) : ~call[k].failed

\* the requests of the list up to i on the key of request i that were allowed
AllowedUpTo(i) == {j \in 1..i : call[j].key = call[i].key /\ ~call[j].denied}

\* the first request of the list on the key of request i
FirstOn(i) ==
  CHOOSE j \in 1..i :
    call[j].key = call[i].key /\ \A k \in 1..(j - 1) : call[k].key # call[i].key

\* C17: with the store working, the number of requests the token bucket has allowed on
\* a key up to time t after the first request never exceeds capacity + refillRate * t;
\* in particular the request after capacity requests at one instant is denied.
C17_TokenBucketBound ==
  \A i \in DOMAIN call :
    (\A j \in 1..i : ~call[j].failed)
      => Cardinality(AllowedUpTo(i)) * TicksPerSecond
           <= BucketCapacity * TicksPerSecond
                + BucketRefillRate * (call[i].at - call[FirstOn(i)].at)

MaxChainRequests == 3

Routes == {"users", "permissions"}

\* the chain with the router's authenticate ahead of the application's limiter
Chain_authenticateFirst(route) ==
  IF route = "permissions"
  THEN <<"authenticate", "rateLimiter", "userRateLimiter", "requirePermission", "handler">>
  ELSE <<"authenticate", "rateLimiter", "requirePermission", "handler">>

\* the stateful middleware a request of the route passes, in registration order:
\* app.js, then router.use, then the route's own list
Chain(route) ==
  IF route = "permissions"
  THEN <<"rateLimiter", "authenticate", "userRateLimiter", "requirePermission", "handler">>
  ELSE <<"rateLimiter", "authenticate", "requirePermission", "handler">>

\* requirePermission('user:list') / requirePermission('permission:list') of GET /
RequiredOf(route) == IF route = "permissions" THEN {"permission:list"} ELSE {"user:list"}

\* createUserRateLimiter's keyGenerator: user:<id> once authenticate has set the id
UserLimitKey(userId, ip) ==
  CASE userId = 0 -> ip
    [] userId = 1 -> "rate_limit:user:1"
    [] userId = 2 -> "rate_limit:user:2"
    [] OTHER -> "rate_limit:user:3"

NoChainRequest ==
  [phase |-> "idle", stage |-> 0, route |-> "", ip |-> "", header |-> "absent",
   token |-> NoToken, userId |-> 0, trail |-> <<>>]

StageOf(c) == Chain(call.reqs[c].route)[call.reqs[c].stage]

Running(c, name) ==
  /\ call.reqs[c].phase = "running"
  /\ StageOf(c) = name

\* await next(): the stage has let the request through and answers nothing
Passed(c, name, userId) ==
  /\ call' = [call EXCEPT !.reqs[c].phase = "pending",
                          !.reqs[c].stage = @ + 1,
                          !.reqs[c].userId = userId,
                          !.reqs[c].trail = Append(@, <<name, "passed">>)]
  /\ ctx' = NoCtx

\* the stage has answered the request itself: the request is over
Answered(c, name, status) ==
  /\ call' = [call EXCEPT !.reqs[c] = NoChainRequest]
  /\ ctx' = IF status = 200 THEN ResponseSuccess(name, <<>>)
            ELSE ResponseError(name, 0, {}, status)

\* a request arrives
receive(c, route, ip, header, token) ==
  /\ call.n < MaxChainRequests
  /\ call.reqs[c].phase = "idle"
  /\ call' = [n |-> call.n + 1,
              reqs |-> [call.reqs EXCEPT ![c] =
                          [phase |-> "pending", stage |-> 1, route |-> route, ip |-> ip,
                           header |-> header, token |-> token, userId |-> 0,
                           trail |-> <<>>]]]
  /\ ctx' = NoCtx
  /\ UNCHANGED <<users, roles, permissions, user_roles, role_permissions, tokens, now, redis>>

\* the composed chain calls the next middleware of the request
dispatch(c) ==
  /\ call.reqs[c].phase = "pending"
  /\ call' = [call EXCEPT !.reqs[c].phase = "running",
                          !.reqs[c].trail = Append(@, <<StageOf(c), "started">>)]
  /\ ctx' = NoCtx
  /\ UNCHANGED <<users, roles, permissions, user_roles, role_permissions, tokens, now, redis>>

\* the limiter middleware of the request: type and key as configured for the stage
limiterStage(c, name, type, key, fails) ==
  /\ Running(c, name)
  /\ fails \in FailurePoints(type)
  /\ redis' = IF fails \in {"none", "expire"} THEN rateLimit(type, key, now).store
              ELSE Unexpired(redis, now)
  /\ IF fails # "none" \/ rateLimit(type, key, now).allowed
     THEN Passed(c, name, call.reqs[c].userId)
     ELSE Answered(c, name, 429)
  /\ UNCHANGED <<users, roles, permissions, user_roles, role_permissions, tokens, now>>

\* app.use(createRateLimiter(rateLimitConfigs.loose)): token bucket on the ip
chainRateLimiter(c, fails) ==
  limiterStage(c, "rateLimiter", "token_bucket", call.reqs[c].ip, fails)

\* router.use(createUserRateLimiter(rateLimitConfigs.moderate)): fixed window
chainUserRateLimiter(c, fails) ==
  limiterStage(c, "userRateLimiter", "fixed_window",
               UserLimitKey(call.reqs[c].userId, call.reqs[c].ip), fails)

\* router.use(authenticate)
chainAuthenticate(c) ==
  /\ Running(c, "authenticate")
  /\ LET out == AuthOutcome("authenticate", call.reqs[c].header, call.reqs[c].token,
                            FALSE, TRUE)
     IN IF out.nextCalled THEN Passed(c, "authenticate", out.userId)
        ELSE Answered(c, "authenticate", out.status)
  /\ UNCHANGED <<users, roles, permissions, user_roles, role_permissions, tokens, now, redis>>

\* requirePermission(code) of the route
chainRequirePermission(c, lookupFails) ==
  /\ Running(c, "requirePermission")
  /\ LET userId == call.reqs[c].userId
         required == RequiredOf(call.reqs[c].route)
     IN IF userId = 0 THEN Answered(c, "requirePermission", 401)
        ELSE IF lookupFails THEN Answered(c, "requirePermission", 500)
        ELSE IF ~hasPermission(required, PermissionCodesOf(getUserPermissions(userId)))
          THEN Answered(c, "requirePermission", 403)
        ELSE Passed(c, "requirePermission", userId)
  /\ UNCHANGED <<users, roles, permissions, user_roles, role_permissions, tokens, now, redis>>

\* the controller of the route answers
chainHandler(c, throws) ==
  /\ Running(c, "handler")
  /\ Answered(c, "handler", IF throws THEN 500 ELSE 200)
  /\ UNCHANGED <<users, roles, permissions, user_roles, role_permissions, tokens, now, redis>>

\* the seed rows the two routes ask for: user:list (2) and permission:list (12),
\* both granted to super_admin (1), which user 1 holds; both users have logged in
InitChain ==
  /\ users = SeedUsers
  /\ roles = SeedRoles
  /\ permissions =
       [id \in {2, 12} |->
          [code |-> IF id = 2 THEN "user:list" ELSE "permission:list",
           parent_id |-> id - 1, sort_order |-> 0, status |-> 1]]
  /\ user_roles = {<<1, 1>>}
  /\ role_permissions = {<<1, 2>>, <<1, 12>>}
  /\ ctx = NoCtx
  /\ tokens = {[id |-> id, exp |-> 1 + TokenTtl, signed |-> TRUE] : id \in UserIds}
  /\ now = 1
  /\ call = [n |-> 0, reqs |-> [c \in CallIds |-> NoChainRequest]]
  /\ redis = NoRedis

\* what a client sends: no Authorization header, or one of the issued tokens
ChainInputs ==
  {in \in [header : {"absent", "bearer"}, token : tokens \cup {NoToken}] :
     in.header # "bearer" <=> in.token = NoToken}

NextChain ==
  \/ ClockTick
  \/ \E c \in CallIds, route \in Routes, in \in ChainInputs :
       receive(c, route, "rate_limit:10.0.0.1", in.header, in.token)
  \/ \E c \in CallIds : dispatch(c)
  \/ \E c \in CallIds, fails \in FailurePoints("token_bucket") : chainRateLimiter(c, fails)
  \/ \E c \in CallIds : chainAuthenticate(c)
  \/ \E c \in CallIds, fails \in FailurePoints("fixed_window") : chainUserRateLimiter(c, fails)
  \/ \E c \in CallIds, lookupFails \in BOOLEAN : chainRequirePermission(c, lookupFails)
  \/ \E c \in CallIds, throws \in BOOLEAN : chainHandler(c, throws)

SpecChain == InitChain /\ [][NextChain]_vars

\* the positions of the request's trail where the stage did the thing
TrailPositions(c, name, what) ==
  {k \in DOMAIN call.reqs[c].trail : call.reqs[c].trail[k] = <<name, what>>}

\* C15: in every request the handler starts only after the rate limiter, authenticate
\* and requirePermission of that request have passed, in this order, and a stage
\* starts only when the stage before it has passed (nothing starts first but the
\* rate limiter).
C15_StagesInOrder ==
  \A c \in CallIds :
    LET trail == call.reqs[c].trail
    IN /\ \A h \in TrailPositions(c, "handler", "started") :
            \E l, a, p \in 1..h :
              /\ l < a /\ a < p
              /\ trail[l] = <<"rateLimiter", "passed">>
              /\ \E s \in 1..l : trail[s] = <<"rateLimiter", "started">>
              /\ \E s \in (l + 1)..a : trail[s] = <<"authenticate", "started">>
              /\ trail[a] = <<"authenticate", "passed">>
              /\ \E s \in (a + 1)..p : trail[s] = <<"requirePermission", "started">>
              /\ trail[p] = <<"requirePermission", "passed">>
       /\ \A k \in DOMAIN trail :
            trail[k][2] = "started"
              => IF k = 1 THEN trail[k][1] = "rateLimiter"
                 ELSE trail[k - 1][2] = "passed"

\* the handler of a permissions route has started while another request is in the
\* middle of its chain
C15_Witness ==
  \E c, d \in CallIds :
    /\ c # d
    /\ call.reqs[c].route = "permissions"
    /\ TrailPositions(c, "handler", "started") # {}
    /\ call.reqs[d].phase = "running" /\ call.reqs[d].stage = 2

\* ---------------------------------------------------------------------------
\* PermissionRepository.getPermissionTree / buildTree / findAllEnabled over every
\* permissions table of up to MaxPermissionRows rows. A parent_id may name a row
\* that is gone: the table has no foreign key on parent_id.
\* ---------------------------------------------------------------------------

MaxSortOrder == 1

PermissionRowIds == 1..MaxPermissionRows

\* 0: a root; MaxPermissionRows + 1: the id of a deleted row
ParentIdsOf(id) == (0..(MaxPermissionRows + 1)) \ {id}

\* the tables: any rows of the ids, each with the seed's code for its id
PermissionTables ==
  {[id \in DOMAIN t |->
      [code |-> PermCodeOf(id), parent_id |-> t[id].parent_id,
       sort_order |-> t[id].sort_order, status |-> t[id].status]] :
     t \in UNION {[ids -> [parent_id : 0..(MaxPermissionRows + 1),
                           sort_order : 0..MaxSortOrder, status : {0, 1}]] :
                    ids \in SUBSET PermissionRowIds}}

\* SELECT * ...: the row with its id column
RowOf(id) ==
  [id |-> id, parent_id |-> permissions[id].parent_id,
   sort_order |-> permissions[id].sort_order, status |-> permissions[id].status]

RowsOf(ids) == [i \in DOMAIN ids |-> RowOf(ids[i])]

\* SELECT * FROM permissions ORDER BY sort_order ASC, id ASC, with no status test
SelectEnabled_allRows == RowsOf(OrderPermissions(DOMAIN permissions))

\* SELECT * FROM permissions WHERE status = 1 ORDER BY sort_order ASC, id ASC
SelectEnabled ==
  RowsOf(OrderPermissions({id \in DOMAIN permissions : permissions[id].status = 1}))

\* permission.children = children
WithChildren(node, children) ==
  [f \in DOMAIN node \cup {"children"} |-> IF f = "children" THEN children ELSE node[f]]

\* buildTree with tree.unshift(permission) for tree.push(permission)
RECURSIVE buildTree_unshift(_, _)
buildTree_unshift(rows, parentId) ==
  LET IsChild(row) == row.parent_id = parentId
      matching == SelectSeq(rows, IsChild)
      node(row) == LET children == buildTree_unshift(rows, row.id)
                   IN IF Len(children) > 0 THEN WithChildren(row, children) ELSE row
  IN [i \in 1..Len(matching) |-> node(matching[Len(matching) + 1 - i])]

\* buildTree(permissions, parentId): the rows whose parent_id is parentId, in list
\* order, each with the tree of its own children when that tree is not empty
RECURSIVE buildTree(_, _)
buildTree(rows, parentId) ==
  LET IsChild(row) == row.parent_id = parentId
      matching == SelectSeq(rows, IsChild)
      node(row) == LET children == buildTree(rows, row.id)
                   IN IF Len(children) > 0 THEN WithChildren(row, children) ELSE row
  IN [i \in 1..Len(matching) |-> node(matching[i])]

\* every node of the forest, parents before their children, siblings in order
RECURSIVE Preorder(_)
Preorder(tree) ==
  IF tree = <<>> THEN <<>>
  ELSE <<Head(tree)>>
         \o (IF "children" \in DOMAIN Head(tree) THEN Preorder(Head(tree).children)
             ELSE <<>>)
         \o Preorder(Tail(tree))

\* PermissionRepository.getPermissionTree
getPermissionTree ==
  /\ ctx' = ResponseSuccess("getPermissionTree", buildTree(SelectEnabled, 0))
  /\ UNCHANGED <<users, roles, permissions, user_roles, role_permissions, tokens, now, call, redis>>

\* PermissionRepository.findAllEnabled
findAllEnabled ==
  /\ ctx' = ResponseSuccess("findAllEnabled", SelectEnabled)
  /\ UNCHANGED <<users, roles, permissions, user_roles, role_permissions, tokens, now, call, redis>>

\* buildTree applied to the nodes of the tree getPermissionTree has just returned
buildTreeAgain ==
  /\ ctx.handler = "getPermissionTree"
  /\ ctx' = ResponseSuccess("buildTree", buildTree(Preorder(ctx.data), 0))
  /\ UNCHANGED <<users, roles, permissions, user_roles, role_permissions, tokens, now, call, redis>>

InitPermissionTree ==
  /\ users = SeedUsers
  /\ roles = SeedRoles
  /\ permissions \in {t \in PermissionTables :
                        \A id \in DOMAIN t : t[id].parent_id \in ParentIdsOf(id)}
  /\ user_roles = {}
  /\ role_permissions = {}
  /\ ctx = NoCtx
  /\ tokens = {}
  /\ now = 0
  /\ call = NoCall
  /\ redis = NoRedis

NextPermissionTree ==
  \/ getPermissionTree
  \/ findAllEnabled
  \/ buildTreeAgain
  \/ \E id \in PermissionRowIds, status \in {0, 1} : updatePermissionStatus(id, status)

SpecPermissionTree == InitPermissionTree /\ [][NextPermissionTree]_vars

\* the enabled permissions whose parent_id chain reaches 0 in at most k + 1 steps
\* through existing, enabled permissions
RECURSIVE Rooted(_)
Rooted(k) ==
  LET enabled == {id \in DOMAIN permissions : permissions[id].status = 1}
  IN IF k = 0 THEN {id \in enabled : permissions[id].parent_id = 0}
     ELSE Rooted(k - 1) \cup {id \in enabled : permissions[id].parent_id \in Rooted(k - 1)}

IdsOf(nodes) == [i \in DOMAIN nodes |-> nodes[i].id]

\* C19: the tree getPermissionTree returns holds each enabled permission whose
\* parent_id chain reaches 0 through existing enabled permissions exactly once and no
\* other permission, while findAllEnabled returns every enabled permission.
C19_TreeHoldsRootedOnly ==
  /\ ctx.handler = "getPermissionTree"
       => /\ Range(IdsOf(Preorder(ctx.data))) = Rooted(MaxPermissionRows)
          /\ NoDuplicates(IdsOf(Preorder(ctx.data)))
  /\ ctx.handler = "findAllEnabled"
       => Range(IdsOf(ctx.data))
            = {id \in DOMAIN permissions : permissions[id].status = 1}

\* a tree was returned that leaves out an enabled permission under a deleted parent,
\* an enabled permission under a disabled parent, or the enabled child of such a one
C19_Witness ==
  /\ ctx.handler = "getPermissionTree"
  /\ ctx.data # <<>>
  /\ \E x, y \in DOMAIN permissions :
       /\ permissions[x].status = 1 /\ permissions[y].status = 1
       /\ \/ permissions[x].parent_id \notin DOMAIN permissions \cup {0}
          \/ /\ permissions[x].parent_id \in DOMAIN permissions
             /\ permissions[permissions[x].parent_id].status = 0
       /\ permissions[y].parent_id = x
       /\ {x, y} \cap Range(IdsOf(Preorder(ctx.data))) = {}

\* a node carries a children field exactly when it has a child in the forest
ChildrenFieldWhereChildren(tree) ==
  \A i \in DOMAIN Preorder(tree) :
    LET n == Preorder(tree)[i]
    IN ("children" \in DOMAIN n)
         <=> \E j \in DOMAIN Preorder(tree) : Preorder(tree)[j].parent_id = n.id

\* C20: buildTree over the nodes of the tree it returned gives that tree again: the
\* same nodes, nesting and sibling order, with a children field exactly on the nodes
\* that have a child.
C20_BuildTreeIdempotent ==
  ctx.handler = "buildTree"
    => /\ ctx.data = buildTree(SelectEnabled, 0)
       /\ ChildrenFieldWhereChildren(ctx.data)

\* the tree built again is three levels deep: a node with one child that has a child
\* of its own
C20_Witness ==
  /\ ctx.handler = "buildTree"
  /\ \E i \in DOMAIN ctx.data :
       /\ "children" \in DOMAIN ctx.data[i]
       /\ Len(ctx.data[i].children) = 1
       /\ "children" \in DOMAIN ctx.data[i].children[1]

\* ---------------------------------------------------------------------------
\* RoleService.deleteRole, every await a step of its own, with assignRoles requests
\* of other clients between the steps. call is the deleteRole request in flight;
\* call.removed keeps the user_roles rows its DELETE took along by ON DELETE CASCADE.
\* ---------------------------------------------------------------------------

NoDeleteRole == [pc |-> "idle", id |-> 0, removed |-> {}]

\* RoleService.deleteRole: roleRepository.findById
deleteRole_findById(id) ==
  /\ call.pc = "idle"
  /\ IF findById(roles, id) = Null
     THEN /\ ctx' = ResponseError("deleteRole", 0, {}, 500)
          /\ call' = NoDeleteRole
     ELSE /\ ctx' = NoCtx
          /\ call' = [pc |-> "getUserCount", id |-> id, removed |-> {}]
  /\ UNCHANGED <<users, roles, permissions, user_roles, role_permissions, tokens, now, redis>>

\* RoleService.deleteRole: roleRepository.getUserCount and the userCount > 0 test
deleteRole_getUserCount ==
  /\ call.pc = "getUserCount"
  /\ IF getUserCount(call.id) > 0
     THEN /\ ctx' = ResponseError("deleteRole", 0, {}, 500)
          /\ call' = NoDeleteRole
     ELSE /\ ctx' = NoCtx
          /\ call' = [call EXCEPT !.pc = "destroyById"]
  /\ UNCHANGED <<users, roles, permissions, user_roles, role_permissions, tokens, now, redis>>

\* RoleService.deleteRole: roleRepository.destroyById; the rows of user_roles and
\* role_permissions that name the role go with it (ON DELETE CASCADE)
deleteRole_destroyById ==
  /\ call.pc = "destroyById"
  /\ roles' = [r \in DOMAIN roles \ {call.id} |-> roles[r]]
  /\ user_roles' = {row \in user_roles : row[2] # call.id}
  /\ role_permissions' = {row \in role_permissions : row[1] # call.id}
  /\ call' = [call EXCEPT !.pc = "idle",
                          !.removed = {row \in user_roles : row[2] = call.id}]
  /\ ctx' = ResponseSuccess("deleteRole", <<call.id>>)
  /\ UNCHANGED <<users, permissions, tokens, now, redis>>

InitRoleRace ==
  /\ users = SeedUsers
  /\ roles = SeedRoles
  /\ permissions = SeedPermissions
  /\ user_roles = {}
  /\ role_permissions = {}
  /\ ctx = NoCtx
  /\ tokens = {}
  /\ now = 0
  /\ call = NoDeleteRole
  /\ redis = NoRedis

NextRoleRace ==
  \/ \E id \in UserIds, roleIds \in SUBSET RoleIds : assignRoles(id, roleIds)
  \/ \E id \in RoleIds, permissionIds \in GrantLists : assignPermissions(id, permissionIds)
  \/ \E id \in RoleIds : deleteRole_findById(id)
  \/ deleteRole_getUserCount
  \/ deleteRole_destroyById

SpecRoleRace == InitRoleRace /\ [][NextRoleRace]_vars

\* C21: a deleteRole that reports success has removed no committed assignment of the
\* role to a user, whatever assignRoles requests ran between its steps.
C21_DeleteNeverRemovesAssignment ==
  ctx.handler = "deleteRole" /\ ctx.status = 200 => call.removed = {}

\* C24: updatePermission(id, {parent_id: p}) on an existing permission fails and leaves
\* the permissions unchanged when p > 0 is the permission's own id or names no
\* permission; with p = 0 or p another existing permission it stores p as the parent.
C24_UpdateParentGuard ==
  [][\A id \in 1..MaxPermissionRows, p \in ParentIds :
       updatePermission(id, p) /\ id \in DOMAIN permissions
         => IF p > 0 /\ (p = id \/ p \notin DOMAIN permissions)
            THEN ctx'.status # 200 /\ UNCHANGED permissions
            ELSE ctx'.status = 200 /\ permissions'[id].parent_id = p
                   /\ \A q \in DOMAIN permissions \ {id} : permissions'[q] = permissions[q]]_vars

\* an update was refused although every row exists: the parent was the permission
\* itself
C24_Witness ==
  /\ ctx.handler = "updatePermission" /\ ctx.status = 500
  /\ DOMAIN permissions = 1..MaxPermissionRows

\* ---------------------------------------------------------------------------
\* tokenBucketRateLimit statement by statement: hmget, then hmset of what the
\* request computed from its own read (cors.js 244-273)

\* a request slot outside tokenBucketRateLimit
NoBucketCall ==
  [pc |-> "idle", key |-> "", at |-> 0, tokens |-> 0, lastRefill |-> 0, allowed |-> FALSE]

\* the tokens a request holds after the refill of what it read
Refilled(c) ==
  Min(BucketCapacity * TicksPerSecond,
      call[c].tokens + (call[c].at - call[c].lastRefill) * BucketRefillRate)

\* const now = Date.now() / 1000; await redis.hmget(key, 'tokens', 'lastRefill')
bucket_hmget(c, key) ==
  /\ call[c].pc \in {"idle", "done"}
  /\ call' = [call EXCEPT ![c] =
       [pc |-> "hmset", key |-> key, at |-> now,
        tokens |-> OrDefault(redis, <<key>>, "tokens", BucketCapacity * TicksPerSecond),
        lastRefill |-> OrDefault(redis, <<key>>, "lastRefill", now),
        allowed |-> FALSE]]
  /\ ctx' = NoCtx
  /\ UNCHANGED <<users, roles, permissions, user_roles, role_permissions, tokens, now, redis>>

\* the refill and the decision from the values read, await redis.hmset, and the
\* answer of the middleware
bucket_hmset(c) ==
  /\ call[c].pc = "hmset"
  /\ LET allowed == Refilled(c) >= TicksPerSecond
         left == IF allowed THEN Refilled(c) - TicksPerSecond ELSE Refilled(c)
     IN /\ redis' = setex(redis, <<call[c].key>>,
                          [tokens |-> left, lastRefill |-> call[c].at,
                           expireAt |-> MaxClock + 1])
        /\ call' = [call EXCEPT ![c].pc = "done", ![c].allowed = allowed]
        /\ ctx' = LimiterResponse(IF allowed THEN 200 ELSE 429, allowed)
  /\ UNCHANGED <<users, roles, permissions, user_roles, role_permissions, tokens, now>>

InitBucketRace ==
  /\ users = SeedUsers
  /\ roles = SeedRoles
  /\ permissions = SeedPermissions
  /\ user_roles = {}
  /\ role_permissions = {}
  /\ ctx = NoCtx
  /\ tokens = {}
  /\ now = 1
  /\ call = [c \in CallIds |-> NoBucketCall]
  /\ redis = NoRedis

NextBucketRace ==
  \/ \E c \in CallIds, key \in LimitKeys : bucket_hmget(c, key)
  \/ \E c \in CallIds : bucket_hmset(c)
  \/ ClockTick

SpecBucketRace == InitBucketRace /\ [][NextBucketRace]_vars

\* C22: two requests for one key that met the same bucket state, holding one token
\* after the refill, are never both admitted.
C22_OneTokenAdmitsOne ==
  \A c, d \in CallIds :
    /\ c # d
    /\ call[c].pc = "done" /\ call[d].pc = "done"
    /\ call[c].key = call[d].key /\ call[c].at = call[d].at
    /\ call[c].tokens = call[d].tokens /\ call[c].lastRefill = call[d].lastRefill
    /\ Refilled(c) < 2 * TicksPerSecond
    => ~(call[c].allowed /\ call[d].allowed)

\* ---------------------------------------------------------------------------
\* requirePermission across requests: the lookup (one SELECT) and the decision
\* taken from its rows, with credential-store writes committed in between
\* (permission.js 24-38, UserRepository.js 182-193)

\* the gate's request in progress (userId 0: none yet) with the codes its lookup
\* returned, the granted codes committed when the lookup ran, and whether the request
\* before it was the same user's for the same code and was let through
NoLookup ==
  [pc |-> "idle", userId |-> 0, required |-> {}, codes |-> {}, granted |-> {},
   passedBefore |-> FALSE]

\* a gate that keeps the codes of the user it looked up last
lookupCodes_remembered(userId) ==
  IF call.userId = userId THEN call.codes ELSE PermissionCodesOf(getUserPermissions(userId))

\* new UserRepository().getUserPermissions(userId), then .map((p) => p.code)
lookupCodes(userId) == PermissionCodesOf(getUserPermissions(userId))

\* requirePermission(code) up to the await of getUserPermissions
requirePermission_lookup(userId, code) ==
  /\ call.pc = "idle"
  /\ call' = [pc |-> "decide", userId |-> userId, required |-> {code},
              codes |-> lookupCodes(userId),
              granted |-> GrantedCodes(userId),
              passedBefore |-> /\ call.userId = userId /\ call.required = {code}
                               /\ ctx.handler = "requirePermission" /\ ctx.nextCalled]
  /\ ctx' = NoCtx
  /\ UNCHANGED <<dbVars, tokens, now, redis>>

\* the rest of requirePermission: 403, or await next()
requirePermission_decide ==
  /\ call.pc = "decide"
  /\ ctx' = IF ~hasPermission(call.required, call.codes)
            THEN ResponseError("requirePermission", call.userId, call.required, 403)
            ELSE Downstream("requirePermission", call.userId, call.required)
  /\ call' = [call EXCEPT !.pc = "idle"]
  /\ UNCHANGED <<dbVars, tokens, now, redis>>

InitFresh ==
  /\ users = SeedUsers
  /\ roles = SeedRoles
  /\ permissions = SeedPermissions
  /\ user_roles = {}
  /\ role_permissions = {}
  /\ ctx = NoCtx
  /\ tokens = {}
  /\ now = 0
  /\ call = NoLookup
  /\ redis = NoRedis

\* the writes that change what the SELECT of getUserPermissions returns (it does not
\* read roles.status)
NextFresh ==
  \/ \E id \in UserIds, roleIds \in SUBSET RoleIds : assignRoles(id, roleIds)
  \/ \E id \in RoleIds, permissionIds \in SUBSET PermIds : assignPermissions(id, permissionIds)
  \/ \E id \in PermIds, status \in {0, 1} : updatePermissionStatus(id, status)
  \/ \E userId \in UserIds, code \in PermCodes : requirePermission_lookup(userId, code)
  \/ requirePermission_decide

SpecFresh == InitFresh /\ [][NextFresh]_vars

\* C23: a decision of requirePermission(c) follows the grants committed when its
\* lookup ran: the next handler runs exactly when c was granted to the user at that
\* moment, whatever an earlier request of the same user was answered.
C23_DecisionsNeverStale ==
  (ctx.handler = "requirePermission" /\ call.pc = "idle") =>
     /\ ctx.userId = call.userId /\ ctx.required = call.required
     /\ ctx.nextCalled <=> (call.required \cap call.granted # {})
     /\ ~ctx.nextCalled => ctx.status = 403

\* a user let through for a code is denied the same code by the next request, after
\* the grant was removed
C23_Witness ==
  /\ ctx.handler = "requirePermission" /\ call.pc = "idle"
  /\ ctx.status = 403
  /\ call.passedBefore

\* ---------------------------------------------------------------------------
\* the routes of /api/auth: the global limiter of app.js (token bucket, key
\* rate_limit:<ip>) and then the route's strict limiter (sliding window, default
\* key generator, the same key rate_limit:<ip>) (cors.js 210-235, 357-364;
\* app.js 31; routes/auth.js 12)

\* requests kept in the sliding window (ticks) and the most it admits
SlidingWindow == 2
SlidingLimit == 2

\* a hash written by hmset
HashValue(bucket) ==
  [kind |-> "hash", tokens |-> bucket.tokens, lastRefill |-> bucket.lastRefill,
   scores |-> <<>>, expireAt |-> bucket.expireAt]

\* the hashes of the store as tokenBucketRateLimit reads them
Hashes(store) ==
  [k \in {x \in DOMAIN store : store[x].kind = "hash"} |->
     [tokens |-> store[k].tokens, lastRefill |-> store[k].lastRefill,
      expireAt |-> store[k].expireAt]]

\* a command for one type sent to a key holding the other: WRONGTYPE
WrongType(store, key, kind) == <<key>> \in DOMAIN store /\ store[<<key>>].kind # kind

\* the scores of the sorted set at key, none when the key is missing
ScoresAt(store, key) == IF <<key>> \in DOMAIN store THEN store[<<key>>].scores ELSE <<>>

\* zremrangebyscore(key, 0, windowStart): both ends belong to the range
zremrangebyscore(scores, windowStart) ==
  SelectSeq(scores, LAMBDA s : s > windowStart)

\* slidingWindowRateLimit(key, limit, window): the pipeline answers each command on
\* its own, so on a key of another type the three sorted-set commands answer an
\* error, count is undefined and count <= limit is false, while expire succeeds
slidingWindowRateLimit(store, key, limit, window, t) ==
  IF WrongType(store, key, "zset")
  THEN [store |-> [store EXCEPT ![<<key>>].expireAt = t + window],
        allowed |-> FALSE, count |-> 0]
  ELSE LET kept == zremrangebyscore(ScoresAt(store, key), t - window)
           scores == Append(kept, t)
       IN [store |-> setex(store, <<key>>,
                           [kind |-> "zset", tokens |-> 0, lastRefill |-> 0,
                            scores |-> scores, expireAt |-> t + window]),
           allowed |-> Len(scores) <= limit,
           count |-> Len(scores)]

\* the global limiter: hmget on a sorted set or a failing store throws and the catch
\* block calls next()
looseLimiter(store, key, fails, t) ==
  IF fails \/ WrongType(store, key, "hash")
  THEN [store |-> store, allowed |-> TRUE]
  ELSE LET result == tokenBucketRateLimit(Hashes(store), key, BucketCapacity,
                                          BucketRefillRate, t)
       IN [store |-> setex(store, <<key>>, HashValue(result.store[<<key>>])),
           allowed |-> result.allowed]

\* no request handled yet
NoAuthRequest == [n |-> 0, by |-> "none", key |-> "", at |-> 0, before |-> <<>>]

\* POST /api/auth/register and its neighbours up to the validator: the global
\* limiter, then createRateLimiter(rateLimitConfigs.strict)
authRequest(key, fails) ==
  /\ call.n < MaxRequests
  /\ LET store == Unexpired(redis, now)
         loose == looseLimiter(store, key, fails, now)
         strict == slidingWindowRateLimit(loose.store, key, SlidingLimit, SlidingWindow, now)
     IN IF ~loose.allowed
        THEN /\ redis' = loose.store
             /\ ctx' = LimiterResponse(429, FALSE)
             /\ call' = [n |-> call.n + 1, by |-> "loose", key |-> key, at |-> now,
                         before |-> <<>>]
        ELSE /\ redis' = strict.store
             /\ ctx' = LimiterResponse(IF strict.allowed THEN 200 ELSE 429, strict.allowed)
             /\ call' = [n |-> call.n + 1, by |-> "strict", key |-> key, at |-> now,
                         before |-> IF WrongType(loose.store, key, "zset") THEN <<>>
                                    ELSE ScoresAt(loose.store, key)]
  /\ UNCHANGED <<users, roles, permissions, user_roles, role_permissions, tokens, now>>

InitSliding ==
  /\ users = SeedUsers
  /\ roles = SeedRoles
  /\ permissions = SeedPermissions
  /\ user_roles = {}
  /\ role_permissions = {}
  /\ ctx = NoCtx
  /\ tokens = {}
  /\ now = 1
  /\ call = NoAuthRequest
  /\ redis = NoRedis

NextSliding ==
  \/ \E key \in LimitKeys, fails \in BOOLEAN : authRequest(key, fails)
  \/ ClockTick

SpecSliding == InitSliding /\ [][NextSliding]_vars

\* C25: a request the strict limiter decided at t is recorded under its key, and it
\* is allowed exactly when the requests recorded after t - W, with itself, are at
\* most M.
C25_SlidingWindowRecordsAndCounts ==
  (ctx.handler = "rateLimiter" /\ call.by = "strict") =>
     /\ \E i \in DOMAIN ScoresAt(redis, call.key) : ScoresAt(redis, call.key)[i] = call.at
     /\ ctx.nextCalled <=>
          Len(zremrangebyscore(call.before, call.at - SlidingWindow)) + 1 <= SlidingLimit

\* ---------------------------------------------------------------------------
\* createRateLimiter over a fixed window with skipSuccessfulRequests, statement by
\* statement: the count, the downstream handler, the compensating decrement, and
\* the catch block around all of them (cors.js 293-351)

\* the window of this limiter in seconds
SkipWindow == 2

\* the options of the limiter
skipSuccessfulRequests == TRUE
skipFailedRequests == FALSE

\* Math.ceil(a / b) for b > 0
CeilDiv(a, b) == -((-a) \div b)

\* a request slot outside the middleware
NoLimiterCall ==
  [pc |-> "idle", key |-> "", incremented |-> -1, decremented |-> -1, nextCalls |-> 0,
   replaced |-> FALSE]

\* Response.error(ctx, message, -1, 429) with the headers X-RateLimit-Reset and
\* Retry-After
LimiterDenied(resetTime, retryAfter) ==
  [NoCtx EXCEPT !.handler = "rateLimiter", !.status = 429,
                !.data = <<resetTime, retryAfter>>]

\* redis.decr(windowKey): a missing key counts from 0 and gets no time to live
decr(store, key) ==
  IF key \in DOMAIN store
  THEN [store EXCEPT ![key].count = @ - 1]
  ELSE setex(store, key, [count |-> -1, expireAt |-> MaxClock + 1])

\* the middleware up to await next(): fixedWindowRateLimit, the headers, and the
\* answer 429 when the count is over the limit
limiter_count(c, key) ==
  /\ call.n < MaxRequests
  /\ call.req[c].pc \in {"idle", "done"}
  /\ LET result == fixedWindowRateLimit(Unexpired(redis, now), key, FixedLimit,
                                        SkipWindow, now)
         retryAfter == CeilDiv(result.resetTime * TicksPerSecond - now, TicksPerSecond)
         entered == [NoLimiterCall EXCEPT !.key = key,
                                          !.incremented = Seconds(now) \div SkipWindow]
     IN /\ redis' = result.store
        /\ IF ~result.allowed
           THEN /\ ctx' = LimiterDenied(result.resetTime, retryAfter)
                /\ call' = [n |-> call.n + 1,
                            req |-> [call.req EXCEPT ![c] = [entered EXCEPT !.pc = "done"]]]
           ELSE /\ ctx' = NoCtx
                /\ call' = [n |-> call.n + 1,
                            req |-> [call.req EXCEPT ![c] = [entered EXCEPT !.pc = "next",
                                                                           !.nextCalls = 1]]]
  /\ UNCHANGED <<users, roles, permissions, user_roles, role_permissions, tokens, now>>

\* catch (error) { logger.error(...); await next() }: the second call of next() in
\* one request, which the composed chain rejects with its own error
limiter_catch(c) ==
  /\ call' = [call EXCEPT !.req[c].pc = "done", !.req[c].nextCalls = @ + 1,
                          !.req[c].replaced = TRUE]
  /\ ctx' = LimiterResponse(500, TRUE)

\* the middleware from the return of await next(): status is ctx.status as the
\* handler left it (0: the handler threw), decrFails: redis.decr rejects
limiter_afterNext(c, status, decrFails) ==
  /\ call.req[c].pc = "next"
  /\ LET shouldSkip == \/ skipSuccessfulRequests /\ status < 400
                       \/ skipFailedRequests /\ status >= 400
         windowKey == <<call.req[c].key, Seconds(now) \div SkipWindow>>
     IN IF status = 0
        THEN limiter_catch(c) /\ UNCHANGED redis
        ELSE IF shouldSkip /\ decrFails
        THEN limiter_catch(c) /\ UNCHANGED redis
        ELSE IF shouldSkip
        THEN /\ redis' = decr(Unexpired(redis, now), windowKey)
             /\ call' = [call EXCEPT !.req[c].pc = "done",
                                     !.req[c].decremented = windowKey[2]]
             /\ ctx' = LimiterResponse(status, TRUE)
        ELSE /\ call' = [call EXCEPT !.req[c].pc = "done"]
             /\ ctx' = LimiterResponse(status, TRUE)
             /\ UNCHANGED redis
  /\ UNCHANGED <<users, roles, permissions, user_roles, role_permissions, tokens, now>>

InitSkip ==
  /\ users = SeedUsers
  /\ roles = SeedRoles
  /\ permissions = SeedPermissions
  /\ user_roles = {}
  /\ role_permissions = {}
  /\ ctx = NoCtx
  /\ tokens = {}
  /\ now = 1
  /\ call = [n |-> 0, req |-> [c \in CallIds |-> NoLimiterCall]]
  /\ redis = NoRedis

NextSkip ==
  \/ \E c \in CallIds, key \in LimitKeys : limiter_count(c, key)
  \/ \E c \in CallIds, status \in {0, 200, 400}, decrFails \in BOOLEAN :
       limiter_afterNext(c, status, decrFails)
  \/ ClockTick

SpecSkip == InitSkip /\ [][NextSkip]_vars

\* C26: a denial is 429 without the downstream handler, its reset time is
\* (floor(now / window) + 1) * window, later than now, and Retry-After is positive.
C26_ResetTimeAfterNow ==
  (ctx.handler = "rateLimiter" /\ ctx.status = 429) =>
     /\ ~ctx.nextCalled
     /\ ctx.data[1] = ((Seconds(now) \div SkipWindow) + 1) * SkipWindow
     /\ ctx.data[1] * TicksPerSecond > now
     /\ ctx.data[2] > 0

\* C27: the compensating decrement goes to the window key the request incremented,
\* and no counter is negative.
C27_DecrementSameWindow ==
  /\ \A c \in CallIds :
       call.req[c].decremented # -1 => call.req[c].decremented = call.req[c].incremented
  /\ \A key \in DOMAIN redis : redis[key].count >= 0

\* C28: the middleware calls next() at most once per request, and an error of the
\* downstream handler is not replaced.
C28_NextAtMostOnce ==
  \A c \in CallIds : call.req[c].nextCalls <= 1 /\ ~call.req[c].replaced

\* ---------------------------------------------------------------------------
\* the recursion of buildTree over any list of rows, cycles and self-parented rows
\* included (PermissionRepository.js 161-175)

\* the deepest nesting of buildTree calls a list of MaxPermissionRows rows with
\* distinct ids can need: one call for parentId 0 and one per row of a chain
MaxDepth == MaxPermissionRows + 1

\* buildTree taking a row that is its own parent for a root as well
RECURSIVE buildTreeCalls_selfRoots(_, _, _)
buildTreeCalls_selfRoots(rows, parentId, depth) ==
  IF depth > MaxDepth THEN <<-1>>
  ELSE LET IsChild(row) == row.parent_id = parentId \/ row.parent_id = row.id
           matching == SelectSeq(rows, IsChild)
       IN Flatten([i \in 1..Len(matching) |->
                     <<matching[i].id>>
                       \o buildTreeCalls_selfRoots(rows, matching[i].id, depth + 1)])

\* the rows buildTree(rows, parentId) pushes, in the order of its forEach and its
\* recursive calls; depth is the nesting of the call, and -1 stands for a call
\* nested deeper than MaxDepth
RECURSIVE buildTreeCalls(_, _, _)
buildTreeCalls(rows, parentId, depth) ==
  IF depth > MaxDepth THEN <<-1>>
  ELSE LET IsChild(row) == row.parent_id = parentId
           matching == SelectSeq(rows, IsChild)
       IN Flatten([i \in 1..Len(matching) |->
                     <<matching[i].id>> \o buildTreeCalls(rows, matching[i].id, depth + 1)])

\* this.buildTree(rows, 0) of getPermissionTree, answering the rows it pushed
buildTreeFromRoot ==
  /\ ctx' = ResponseSuccess("buildTreeCalls", buildTreeCalls(SelectEnabled, 0, 1))
  /\ UNCHANGED <<users, roles, permissions, user_roles, role_permissions, tokens, now, call, redis>>

InitBuildTree ==
  /\ users = SeedUsers
  /\ roles = SeedRoles
  /\ permissions \in PermissionTables
  /\ user_roles = {}
  /\ role_permissions = {}
  /\ ctx = NoCtx
  /\ tokens = {}
  /\ now = 0
  /\ call = NoCall
  /\ redis = NoRedis

NextBuildTree ==
  \/ buildTreeFromRoot
  \/ \E id \in PermissionRowIds, status \in {0, 1} : updatePermissionStatus(id, status)

SpecBuildTree == InitBuildTree /\ [][NextBuildTree]_vars

\* C29: buildTree from parentId 0 ends within MaxDepth nested calls on every list of
\* rows, and pushes each permission at most once.
C29_BuildTreeTerminates ==
  ctx.handler = "buildTreeCalls" =>
     /\ -1 \notin Range(ctx.data)
     /\ NoDuplicates(ctx.data)
     /\ Range(ctx.data) = Rooted(MaxPermissionRows)

\* buildTree has returned on a list with a self-parented row and a cycle of two
C29_Witness ==
  /\ ctx.handler = "buildTreeCalls"
  /\ \E a, b, c \in DOMAIN permissions :
       /\ a # b /\ b # c /\ a # c
       /\ \A id \in {a, b, c} : permissions[id].status = 1
       /\ permissions[a].parent_id = a
       /\ permissions[b].parent_id = c /\ permissions[c].parent_id = b

\* ---------------------------------------------------------------------------
\* the registration flow: register, resendVerificationEmail and verifyEmail
\* interleaved at their awaits (AuthService.js 91-132, 140-185, 191-211)

\* AuthService.resendVerificationEmail up to the await of setex: redis.get
resendVerificationEmail_get(c, email) ==
  /\ call[c].pc = "idle"
  /\ IF TempUserKey(email) \notin DOMAIN redis
     THEN /\ ctx' = ResponseError("resendVerificationEmail", 0, {}, 500)
          /\ UNCHANGED call
     ELSE /\ ctx' = NoCtx
          /\ call' = [call EXCEPT ![c] = [pc |-> "resend", id |-> 0,
                                          username |-> redis[TempUserKey(email)].username,
                                          email |-> redis[TempUserKey(email)].email]]
  /\ UNCHANGED <<users, roles, permissions, user_roles, role_permissions, tokens, now, redis>>

\* AuthService.resendVerificationEmail: generateVerificationCode and redis.setex of the
\* data it read, with the new code
resendVerificationEmail_setex(c, code) ==
  /\ call[c].pc = "resend"
  /\ redis' = setex(redis, TempUserKey(call[c].email),
                    [username |-> call[c].username, email |-> call[c].email,
                     verificationCode |-> code])
  /\ ctx' = ResponseSuccess("resendVerificationEmail", <<>>)
  /\ call' = [call EXCEPT ![c] = NoRequest]
  /\ UNCHANGED <<users, roles, permissions, user_roles, role_permissions, tokens, now>>

NextRegistration ==
  \/ \E c \in CallIds, username \in Usernames, email \in Emails :
       register_check(c, username, email)
  \/ \E c \in CallIds, code \in Codes : register_setex(c, code)
  \/ \E email \in Emails : expire(TempUserKey(email))
  \/ \E c \in CallIds, email \in Emails : resendVerificationEmail_get(c, email)
  \/ \E c \in CallIds, code \in Codes : resendVerificationEmail_setex(c, code)
  \/ \E c \in CallIds, email \in Emails, code \in Codes : verifyEmail_get(c, email, code)
  \/ \E c \in CallIds : verifyEmail_insert(c)

SpecRegistration == InitUsers /\ [][NextRegistration]_vars

\* the code verifyEmail has to be given: the one of the pending registration
PendingCode(email) ==
  IF TempUserKey(email) \in DOMAIN redis
  THEN {redis[TempUserKey(email)].verificationCode} ELSE {}

\* C30: the pending registration of an email holds the code issued last, by register
\* or by resendVerificationEmail; verifyEmail goes on to create the user only when
\* there is a pending registration and the code given is that code, and fails
\* otherwise; it fails without creating anything when the email already has a user;
\* and no interleaving leaves two users with one email.
C30_VerifyNeedsLatestCode ==
  /\ [](\A email \in Emails : Cardinality(findByEmail(email)) <= 1)
  /\ [][/\ \A c \in CallIds, email \in Emails, code \in Codes :
             (register_setex(c, code) \/ resendVerificationEmail_setex(c, code))
               /\ call[c].email = email
               => PendingCode(email)' = {code}
        /\ \A c \in CallIds, email \in Emails, code \in Codes :
             verifyEmail_get(c, email, code) /\ code \notin PendingCode(email)
               => ctx'.status # 200 /\ UNCHANGED <<users, call>>
        /\ \A c \in CallIds :
             verifyEmail_insert(c) /\ findByEmail(call[c].email) # {}
               => FailsWithoutWriting
        /\ users' # users
             => \E c \in CallIds :
                  /\ call[c].pc = "verifyEmail"
                  /\ findByEmail(call[c].email) = {}
                  /\ Cardinality(DOMAIN users') = Cardinality(DOMAIN users) + 1]_vars

\* a user was created by verifyEmail while a resendVerificationEmail for the same
\* email, which read the registration before, is about to store a new code
C30_Witness ==
  /\ ctx.handler = "verifyEmail" /\ ctx.status = 200
  /\ \E c \in CallIds : call[c].pc = "resend" /\ findByEmail(call[c].email) # {}

====
